---- MODULE Spec2Model ----
\* A model of the tiger-lang compiler front end: the Module symbol table
\* (src/src/lang/module.rs), the TokenStream tokenizer and its UTF-8 reader
\* (src/src/tokenizer/mod.rs) and the parser (src/src/parser).  Text is
\* modelled as sequences of one-character strings; a HashMap is a function
\* whose DOMAIN is its key set.
EXTENDS Integers, Sequences, FiniteSets, TLC

VARIABLES
    \* ---- lang::Module (module.rs:7-16)
    functions, constants, variables, imports,
    mod_call,        \* observation: the last Module call and what it returned
    \* ---- tokenizer::TokenStream (tokenizer/mod.rs:110-121)
    stream,          \* the reader: the characters not yet read
    stream_column, stream_line,
    lookahead_buf, finished, cached_token,
    token_column, token_line,
    \* ---- observation of the calls made on the stream
    input,           \* the whole text the reader was created over
    op,              \* the last call: "new", "peek" or "next_token"
    result,          \* what the last call returned
    consumed,        \* how many results (tokens or errors) the calls have used up
    trail,           \* the names of the last (at most four) calls
    yielded,         \* the texts of the results used up so far, concatenated
    errored,         \* TRUE once some call has returned an error
    \* ---- observation of the calls made on the parser
    pcall            \* the last parser call and what it returned

modvars == <<functions, constants, variables, imports, mod_call>>
tsvars == <<stream, stream_column, stream_line, lookahead_buf, finished,
            cached_token, token_column, token_line>>
obsvars == <<input, op, result, consumed, trail, yielded, errored>>
vars == <<functions, constants, variables, imports, mod_call,
          stream, stream_column, stream_line, lookahead_buf, finished,
          cached_token, token_column, token_line,
          input, op, result, consumed, trail, yielded, errored, pcall>>

\* ------------------------------------------------------------------
\* Bounds
\* ------------------------------------------------------------------
\* Longest text enumerated exhaustively over an alphabet.
MaxLen == 3

\* ==================================================================
\* lang::Module
\* ==================================================================
EmptyMap == [k \in {} |-> ""]

\* HashMap::insert
Insert(m, k, v) == [x \in (DOMAIN m) \cup {k} |-> IF x = k THEN v ELSE m[x]]

NoImport == [ident |-> <<>>, local_alias |-> <<>>]
NoSymbol == [some |-> FALSE, kind |-> "", payload |-> "", import |-> NoImport]
SomeSymbol(kind, payload) ==
    [some |-> TRUE, kind |-> kind, payload |-> payload, import |-> NoImport]
SomeImport(imp) == [some |-> TRUE, kind |-> "Import", payload |-> "", import |-> imp]

\* The Module as a record, for the operators below.
ModuleRec == [functions |-> functions, constants |-> constants,
              variables |-> variables, imports |-> imports]

\* Mutant of lookup: the imports store is not consulted.
lookup_skips_imports(m, ident) ==
    IF ident \in DOMAIN m.functions THEN SomeSymbol("Function", m.functions[ident])
    ELSE IF ident \in DOMAIN m.constants THEN SomeSymbol("Constant", m.constants[ident])
    ELSE IF ident \in DOMAIN m.variables THEN SomeSymbol("Variable", m.variables[ident])
    ELSE NoSymbol

\* Module::lookup: functions, constants, variables, imports, first match.
lookup(m, ident) ==
    IF ident \in DOMAIN m.functions THEN SomeSymbol("Function", m.functions[ident])
    ELSE IF ident \in DOMAIN m.constants THEN SomeSymbol("Constant", m.constants[ident])
    ELSE IF ident \in DOMAIN m.variables THEN SomeSymbol("Variable", m.variables[ident])
    ELSE IF ident \in DOMAIN m.imports THEN SomeImport(m.imports[ident])
    ELSE NoSymbol

\* Module::define: [m |-> the module afterwards, ok |-> Ok(()) or Err(())]
define(m, ident, symb) ==
    IF lookup(m, ident).some
    THEN [m |-> m, ok |-> FALSE]
    ELSE CASE symb.kind = "Function" ->
                [m |-> [m EXCEPT !.functions = Insert(@, ident, symb.payload)], ok |-> TRUE]
           [] symb.kind = "Variable" ->
                [m |-> [m EXCEPT !.variables = Insert(@, ident, symb.payload)], ok |-> TRUE]
           [] symb.kind = "Constant" ->
                [m |-> [m EXCEPT !.constants = Insert(@, ident, symb.payload)], ok |-> TRUE]

\* Module::redefine: inserts into the store of the new symbol's kind and
\* returns what that store held under the name.
redefine(m, ident, symb) ==
    CASE symb.kind = "Function" ->
            [m |-> [m EXCEPT !.functions = Insert(@, ident, symb.payload)],
             prev |-> IF ident \in DOMAIN m.functions
                      THEN SomeSymbol("Function", m.functions[ident]) ELSE NoSymbol]
      [] symb.kind = "Variable" ->
            [m |-> [m EXCEPT !.variables = Insert(@, ident, symb.payload)],
             prev |-> IF ident \in DOMAIN m.variables
                      THEN SomeSymbol("Variable", m.variables[ident]) ELSE NoSymbol]
      [] symb.kind = "Constant" ->
            [m |-> [m EXCEPT !.constants = Insert(@, ident, symb.payload)],
             prev |-> IF ident \in DOMAIN m.constants
                      THEN SomeSymbol("Constant", m.constants[ident]) ELSE NoSymbol]

\* Module::import
import(m, imp) ==
    IF lookup(m, imp.local_alias).some
    THEN [m |-> m, ok |-> FALSE]
    ELSE [m |-> [m EXCEPT !.imports = Insert(@, imp.local_alias, imp)], ok |-> TRUE]

\* str::split(".").last(): the characters after the last dot.
RECURSIVE LastSegment(_)
LastSegment(s) ==
    IF \A i \in 1..Len(s) : s[i] # "." THEN s
    ELSE LastSegment(Tail(s))

\* Import::new
Import_new(ident, local_alias) ==
    [ident |-> ident,
     local_alias |-> IF local_alias = <<>> THEN LastSegment(ident) ELSE local_alias]

\* ---- the inputs of the Module calls
Idents == {<<"x">>, <<"y">>}
Payloads == {"p", "q"}
SymbolKinds == {"Function", "Variable", "Constant"}
Symbols == [kind : SymbolKinds, payload : Payloads]
ImportPaths == {<<"a", ".", "x">>, <<"y">>}
ImportAliases == {<<>>, <<"x">>}

NoCall == [op |-> "new", ident |-> <<>>, kind |-> "", payload |-> "", ok |-> TRUE,
           prev |-> NoSymbol, held |-> NoSymbol]

InitModuleVars ==
    /\ functions = EmptyMap
    /\ constants = EmptyMap
    /\ variables = EmptyMap
    /\ imports = [k \in {} |-> NoImport]
    /\ mod_call = NoCall

SetModule(m) ==
    /\ functions' = m.functions
    /\ constants' = m.constants
    /\ variables' = m.variables
    /\ imports' = m.imports

Define ==
    \E ident \in Idents, symb \in Symbols :
        LET r == define(ModuleRec, ident, symb) IN
        /\ SetModule(r.m)
        /\ mod_call' = [op |-> "define", ident |-> ident, kind |-> symb.kind,
                        payload |-> symb.payload, ok |-> r.ok, prev |-> NoSymbol,
                        held |-> lookup(ModuleRec, ident)]

Redefine ==
    \E ident \in Idents, symb \in Symbols :
        LET r == redefine(ModuleRec, ident, symb) IN
        /\ SetModule(r.m)
        /\ mod_call' = [op |-> "redefine", ident |-> ident, kind |-> symb.kind,
                        payload |-> symb.payload, ok |-> TRUE, prev |-> r.prev,
                        held |-> lookup(ModuleRec, ident)]

Import ==
    \E p \in ImportPaths, a \in ImportAliases :
        LET imp == Import_new(p, a)
            r == import(ModuleRec, imp) IN
        /\ SetModule(r.m)
        /\ mod_call' = [op |-> "import", ident |-> imp.local_alias, kind |-> "Import",
                        payload |-> "", ok |-> r.ok, prev |-> NoSymbol,
                        held |-> lookup(ModuleRec, imp.local_alias)]

\* ==================================================================
\* tokenizer::TokenStream
\* ==================================================================
\* ---- characters
LowerCase == {"a","b","c","d","e","f","g","h","i","j","k","l","m",
              "n","o","p","q","r","s","t","u","v","w","x","y","z"}
UpperCase == {"A","B","C","D","E","F","G","H","I","J","K","L","M",
              "N","O","P","Q","R","S","T","U","V","W","X","Y","Z"}
DecimalDigits == {"0","1","2","3","4","5","6","7","8","9"}
Digits36 == <<"0","1","2","3","4","5","6","7","8","9",
              "a","b","c","d","e","f","g","h","i","j","k","l","m",
              "n","o","p","q","r","s","t","u","v","w","x","y","z">>
Upper36 == <<"0","1","2","3","4","5","6","7","8","9",
             "A","B","C","D","E","F","G","H","I","J","K","L","M",
             "N","O","P","Q","R","S","T","U","V","W","X","Y","Z">>

\* A character outside ASCII is written by its scalar value: U+233 is e-acute.
Scalar(n) == "U+" \o ToString(n)
\* The letters among the characters outside ASCII that the inputs hold:
\* U+00E9, U+0800 and U+10000.
AlphabeticScalars == {Scalar(233), Scalar(2048), Scalar(65536)}

\* char::is_whitespace, is_alphabetic, is_numeric, is_alphanumeric
is_whitespace(c) == c \in {" ", "\t", "\n", "\r", "\f"}
is_alphabetic(c) == c \in LowerCase \cup UpperCase \cup AlphabeticScalars
char_is_numeric(c) == c \in DecimalDigits
is_alphanumeric(c) == is_alphabetic(c) \/ char_is_numeric(c)

\* char::to_digit: the digit's value, or -1 for no digit of that base
to_digit(c, base) ==
    LET hits == {i \in 1..36 : Digits36[i] = c \/ Upper36[i] = c} IN
    IF hits = {} THEN -1
    ELSE LET v == (CHOOSE i \in hits : TRUE) - 1 IN IF v < base THEN v ELSE -1

\* fn is_numeric(c, base)
is_numeric(c, base) == to_digit(c, base) >= 0

\* fn is_operator(c)
is_operator(c) == c \in {"+", "-", "/", "*", "%", "!", "&", "|", "^", "=", "<", ">"}

\* ---- the bytes of the reader and UTF-8
\* A byte below 0x80 is written as its ASCII character, the other bytes by
\* name: xC3 is the byte 0xC3 = 195.
HighBytes ==
    [x80 |-> 128, x82 |-> 130, x8F |-> 143, x90 |-> 144, x98 |-> 152, x9F |-> 159,
     xA0 |-> 160, xA9 |-> 169, xAC |-> 172, xBF |-> 191, xC0 |-> 192, xC3 |-> 195,
     xDF |-> 223, xE0 |-> 224, xE2 |-> 226, xED |-> 237, xEF |-> 239, xF0 |-> 240,
     xF4 |-> 244, xFF |-> 255]
\* The zero byte, which fills the unread part of read_char's buffer.
ZeroByte == "NUL"
\* A byte sequence of the reader that is no UTF-8 encoding: read_char fails on it.
BadSeq == "<invalid utf-8>"

is_high(b) == b \in DOMAIN HighBytes
InRange(b, lo, hi) == is_high(b) /\ HighBytes[b] >= lo /\ HighBytes[b] <= hi
Continuation(b) == InRange(b, 128, 191)
\* The second byte of a three-byte and of a four-byte sequence: no overlong
\* form, no surrogate, nothing above U+10FFFF.
SecondOfThree(b1, b2) ==
    CASE HighBytes[b1] = 224 -> InRange(b2, 160, 191)
      [] HighBytes[b1] = 237 -> InRange(b2, 128, 159)
      [] OTHER -> Continuation(b2)
SecondOfFour(b1, b2) ==
    CASE HighBytes[b1] = 240 -> InRange(b2, 144, 191)
      [] HighBytes[b1] = 244 -> InRange(b2, 128, 143)
      [] OTHER -> Continuation(b2)

\* The length of the UTF-8 sequence the bytes start with, 0 if they start
\* with none (the validation of core::str::from_utf8).
SequenceLength(b) ==
    IF b = <<>> THEN 0
    ELSE IF ~is_high(b[1]) THEN 1
    ELSE IF InRange(b[1], 194, 223)
    THEN (IF Len(b) >= 2 /\ Continuation(b[2]) THEN 2 ELSE 0)
    ELSE IF InRange(b[1], 224, 239)
    THEN (IF Len(b) >= 3 /\ SecondOfThree(b[1], b[2]) /\ Continuation(b[3]) THEN 3 ELSE 0)
    ELSE IF InRange(b[1], 240, 244)
    THEN (IF Len(b) >= 4 /\ SecondOfFour(b[1], b[2]) /\ Continuation(b[3])
                /\ Continuation(b[4]) THEN 4 ELSE 0)
    ELSE 0

\* std::str::from_utf8(b).is_ok()
RECURSIVE from_utf8(_)
from_utf8_rest(b, n) == n > 0 /\ from_utf8(SubSeq(b, n + 1, Len(b)))
from_utf8(b) == b = <<>> \/ from_utf8_rest(b, SequenceLength(b))

\* s.chars().next().unwrap() on valid UTF-8: the first character, n being
\* the length of its sequence
first_char_of(b, n) ==
    CASE n = 1 -> b[1]
      [] n = 2 -> Scalar((HighBytes[b[1]] % 32) * 64 + (HighBytes[b[2]] % 64))
      [] n = 3 -> Scalar((HighBytes[b[1]] % 16) * 4096 + (HighBytes[b[2]] % 64) * 64
                            + (HighBytes[b[3]] % 64))
      [] n = 4 -> Scalar((HighBytes[b[1]] % 8) * 262144 + (HighBytes[b[2]] % 64) * 4096
                            + (HighBytes[b[3]] % 64) * 64 + (HighBytes[b[4]] % 64))
first_char(b) == first_char_of(b, SequenceLength(b))

\* ---- tokens, errors, results
stream_path == "-"

NoValue == [kind |-> "", op |-> "", num |-> 0, str |-> <<>>]
Value(kind) == [kind |-> kind, op |-> "", num |-> 0, str |-> <<>>]
OpValue(kind, o) == [kind |-> kind, op |-> o, num |-> 0, str |-> <<>>]
NumValue(kind, n) == [kind |-> kind, op |-> "", num |-> n, str |-> <<>>]
StrValue(kind, s) == [kind |-> kind, op |-> "", num |-> 0, str |-> s]

NoToken == [column |-> 0, line |-> 0, length |-> 0, path |-> "", text |-> <<>>,
            value |-> NoValue]
NoError == [message |-> "", kind |-> "", line |-> 0, column |-> 0, source |-> ""]

NoneRes == [tag |-> "None", tok |-> NoToken, err |-> NoError]
OkRes(t) == [tag |-> "Ok", tok |-> t, err |-> NoError]
ErrRes(e) == [tag |-> "Err", tok |-> NoToken, err |-> e]

NoCached == [some |-> FALSE, tok |-> NoToken]
Cached(t) == [some |-> TRUE, tok |-> t]

\* The TokenStream as a record, for the operators below.
Self == [stream |-> stream, stream_column |-> stream_column,
         stream_line |-> stream_line, lookahead_buf |-> lookahead_buf,
         finished |-> finished, cached_token |-> cached_token,
         token_column |-> token_column, token_line |-> token_line]

\* TokenStream::new
NewStream(text) ==
    [stream |-> text, stream_column |-> 1, stream_line |-> 1,
     lookahead_buf |-> <<>>, finished |-> FALSE, cached_token |-> NoCached,
     token_column |-> 1, token_line |-> 1]

\* Mutant of is_empty: the token peek holds back is forgotten.
is_empty_ignores_cache(s) == s.finished

\* TokenStream::is_empty
is_empty(s) == s.finished /\ ~s.cached_token.some

\* fn read_char(r) on the bytes r: the next character of the reader, decoded.
\* [tag |-> "None" | "Ok" | "Err", c |-> the character, rest |-> the reader
\*  afterwards, io |-> the io::ErrorKind of an Err]
ReadRet(tag, c, rest, io) == [tag |-> tag, c |-> c, rest |-> rest, io |-> io]

\* Mutant of RuneBuffer: the unread part of the buffer holds continuation
\* bytes, not zero bytes.
RuneBuffer_not_zeroed(rune) == rune \o [i \in 1..(4 - Len(rune)) |-> "x80"]

\* The buffer rune: the bytes read, then the zero bytes it was made of.
RuneBuffer(rune) == rune \o [i \in 1..(4 - Len(rune)) |-> ZeroByte]

RECURSIVE fn_read_char_loop(_, _)
\* read_char, the second match of its loop: the whole buffer is validated.
fn_read_char_validate(r, rune, buffer) ==
    IF from_utf8(buffer)
    THEN ReadRet("Ok", first_char(buffer), r, "")
    ELSE fn_read_char_loop(r, rune)
fn_read_char_decode(r, rune) == fn_read_char_validate(r, rune, RuneBuffer(rune))

\* read_char, its loop and the first match: one byte is read into the buffer.
fn_read_char_loop(r, rune) ==
    IF Len(rune) >= 4 THEN ReadRet("Err", "", r, "InvalidData")
    ELSE IF r = <<>>
    THEN (IF rune = <<>> THEN ReadRet("None", "", r, "")
          ELSE ReadRet("Err", "", r, "UnexpectedEof"))
    ELSE fn_read_char_decode(Tail(r), Append(rune, Head(r)))

fn_read_char(r) == fn_read_char_loop(r, <<>>)

\* What the read_char calls of a TokenStream return, one after the other, on
\* a reader of the bytes r, up to the end marker: the characters, and BadSeq
\* for an error.
RECURSIVE ReadCharResults(_)
ReadCharResultsFrom(d) ==
    IF d.tag = "None" THEN <<>>
    ELSE <<IF d.tag = "Ok" THEN d.c ELSE BadSeq>> \o ReadCharResults(d.rest)
ReadCharResults(r) == ReadCharResultsFrom(fn_read_char(r))

\* fn read_char(r) as a TokenStream meets it: r holds what the calls return,
\* the characters the bytes decode to and BadSeq where they decode to none.
reader_read_char(r) ==
    IF r = <<>> THEN [tag |-> "None", c |-> "", rest |-> r]
    ELSE IF Head(r) = BadSeq THEN [tag |-> "Err", c |-> "", rest |-> Tail(r)]
    ELSE [tag |-> "Ok", c |-> Head(r), rest |-> Tail(r)]

\* What next_char returns: the stream afterwards, and None, Ok(c) or Err.
CharRet(s, tag, c) == [ts |-> s, tag |-> tag, c |-> c]

\* next_char, the position update (the match on res) and the finished flag.
next_char_advance(s, tag, c) ==
    IF tag = "Ok" /\ c = "\n"
    THEN CharRet([s EXCEPT !.stream_column = 1, !.stream_line = @ + 1], tag, c)
    ELSE IF tag = "Ok" THEN CharRet([s EXCEPT !.stream_column = @ + 1], tag, c)
    ELSE IF tag = "None" THEN CharRet([s EXCEPT !.finished = TRUE], tag, c)
    ELSE CharRet(s, tag, c)

\* next_char, the branch that reads from the reader.
next_char_from_reader(s, rd) ==
    next_char_advance([s EXCEPT !.stream = rd.rest], rd.tag, rd.c)

\* TokenStream::next_char
next_char(s) ==
    IF s.lookahead_buf # <<>>
    THEN next_char_advance([s EXCEPT !.lookahead_buf = Tail(@)], "Ok", Head(s.lookahead_buf))
    ELSE next_char_from_reader(s, reader_read_char(s.stream))

\* Mutant of push_char: the character is given back twice.
push_char_twice(s, c) == [s EXCEPT !.lookahead_buf = Append(Append(@, c), c)]

\* Mutant of push_char: the character is not given back.
push_char_drops(s, c) == s

\* TokenStream::push_char
push_char(s, c) == [s EXCEPT !.lookahead_buf = Append(@, c)]

\* TokenStream::build_token
build_token(s, value, text) ==
    [column |-> s.token_column, line |-> s.token_line, length |-> Len(text),
     path |-> stream_path, text |-> text, value |-> value]

\* TokenStream::error, internal_error, io_error
error(s, msg) ==
    [message |-> msg, kind |-> "InvalidInput", line |-> s.stream_line,
     column |-> s.stream_column, source |-> stream_path]
internal_error(s, msg) ==
    [message |-> msg, kind |-> "Internal", line |-> s.stream_line,
     column |-> s.stream_column, source |-> stream_path]
io_error(s) ==
    [message |-> "I/O error", kind |-> "IOError", line |-> s.stream_line,
     column |-> s.stream_column, source |-> stream_path]

\* What a read_* method returns: the stream afterwards and the result.
Ret(s, res) == [ts |-> s, res |-> res]
RetToken(s, value, text) == Ret(s, OkRes(build_token(s, value, text)))
RetError(s, msg) == Ret(s, ErrRes(error(s, msg)))
RetInternal(s, msg) == Ret(s, ErrRes(internal_error(s, msg)))
RetIo(s) == Ret(s, ErrRes(io_error(s)))

\* ---- identifiers and keywords
\* The keyword table of check_keyword: the token value each keyword builds.
KeywordValue(w) ==
    CASE w = <<"i","f">> -> Value("KeywordIf")
      [] w = <<"e","l","s","e">> -> Value("KeywordElse")
      [] w = <<"f","o","r">> -> Value("KeywordFor")
      [] w = <<"l","o","o","p">> -> Value("KeywordLoop")
      [] w = <<"w","h","i","l","e">> -> Value("KeywordWhile")
      [] w = <<"f","u","n","c">> -> Value("KeywordFunc")
      [] w = <<"t","e","s","t">> -> Value("KeywordTest")
      [] w = <<"v","a","r">> -> Value("KeywordVar")
      [] w = <<"c","o","n","s","t">> -> Value("KeywordConst")
      [] w = <<"u","s","e">> -> Value("KeywordUse")
      [] w = <<"a","s">> -> Value("KeywordAs")
      [] w = <<"r","e","t","u","r","n">> -> Value("KeywordReturn")
      [] w = <<"t","r","u","e">> -> OpValue("BoolLiteral", "true")
      [] w = <<"f","a","l","s","e">> -> OpValue("BoolLiteral", "false")
      [] OTHER -> NoValue

\* TokenStream::check_keyword: [some |-> a keyword matched, tok |-> its token]
check_keyword(s, w) ==
    IF KeywordValue(w) = NoValue THEN NoCached
    ELSE Cached(build_token(s, KeywordValue(w), w))

\* read_ident after its loop: the keyword check, else an Identifier.
read_ident_finish(s, w) ==
    IF check_keyword(s, w).some THEN Ret(s, OkRes(check_keyword(s, w).tok))
    ELSE RetToken(s, StrValue("Identifier", w), w)

RECURSIVE read_ident_loop(_, _)
\* One turn of read_ident's loop on the character n that next_char returned.
read_ident_step(n, value) ==
    CASE n.tag = "None" -> read_ident_finish(n.ts, value)
      [] n.tag = "Err" -> RetIo(n.ts)
      [] OTHER ->
            IF is_alphanumeric(n.c) \/ n.c = "_"
            THEN read_ident_loop(n.ts, Append(value, n.c))
            ELSE read_ident_finish(n.ts, value)

read_ident_loop(s, value) == read_ident_step(next_char(s), value)

\* TokenStream::read_ident
read_ident(s) == read_ident_loop(s, <<>>)

\* ---- numbers
\* i128::from_str_radix on a digit string: [ok, num]
RECURSIVE DigitsValue(_, _)
DigitsValue(digits, base) ==
    IF digits = <<>> THEN 0
    ELSE DigitsValue(SubSeq(digits, 1, Len(digits) - 1), base) * base
         + to_digit(digits[Len(digits)], base)

Unsigned(value) == IF value # <<>> /\ value[1] \in {"-", "+"} THEN Tail(value) ELSE value

\* i128::MAX and the magnitude of i128::MIN, written in the base: 2^127 - 1
\* and 2^127.  A value is compared with them digit by digit.
Repeat(c, n) == [i \in 1..n |-> c]
i128_MAX(base) ==
    CASE base = 2 -> Repeat("1", 127)
      [] base = 8 -> <<"1">> \o Repeat("7", 42)
      [] base = 16 -> <<"7">> \o Repeat("f", 31)
      [] OTHER -> << "1","7","0","1","4","1","1","8","3","4","6","0","4","6","9","2","3",
                     "1","7","3","1","6","8","7","3","0","3","7","1","5","8","8","4","1",
                     "0","5","7","2","7" >>
i128_MIN(base) ==
    CASE base = 2 -> <<"1">> \o Repeat("0", 127)
      [] base = 8 -> <<"2">> \o Repeat("0", 42)
      [] base = 16 -> <<"8">> \o Repeat("0", 31)
      [] OTHER -> << "1","7","0","1","4","1","1","8","3","4","6","0","4","6","9","2","3",
                     "1","7","3","1","6","8","7","3","0","3","7","1","5","8","8","4","1",
                     "0","5","7","2","8" >>

RECURSIVE StripZeros(_)
StripZeros(digits) ==
    IF Len(digits) > 1 /\ digits[1] = "0" THEN StripZeros(Tail(digits)) ELSE digits

\* The number a is greater than the number b, both without leading zeros.
GreaterDigits(a, b, base) ==
    \/ Len(a) > Len(b)
    \/ /\ Len(a) = Len(b)
       /\ \E i \in 1..Len(a) :
             /\ to_digit(a[i], base) > to_digit(b[i], base)
             /\ \A j \in 1..(i - 1) : to_digit(a[j], base) = to_digit(b[j], base)

\* IntErrorKind::PosOverflow, NegOverflow: the value is outside i128
Overflows(value, base) ==
    IF value[1] = "-"
    THEN GreaterDigits(StripZeros(Tail(value)), i128_MIN(base), base)
    ELSE GreaterDigits(StripZeros(Unsigned(value)), i128_MAX(base), base)

\* The value num is computed for the literals below 2^31.
from_str_radix(value, base) ==
    IF Unsigned(value) = <<>>
       \/ \E i \in 1..Len(Unsigned(value)) : ~is_numeric(Unsigned(value)[i], base)
       \/ Overflows(value, base)
    THEN [ok |-> FALSE, num |-> 0]
    ELSE IF value[1] = "-"
    THEN [ok |-> TRUE, num |-> 0 - DigitsValue(Tail(value), base)]
    ELSE [ok |-> TRUE, num |-> DigitsValue(Unsigned(value), base)]

\* str::parse::<f64> accepts this text (decimal digits, optional sign, one optional dot)
parse_f64_ok(text) ==
    /\ \E i \in 1..Len(Unsigned(text)) : Unsigned(text)[i] \in DecimalDigits
    /\ \A i \in 1..Len(Unsigned(text)) : Unsigned(text)[i] \in DecimalDigits \cup {"."}
    /\ Cardinality({i \in 1..Len(Unsigned(text)) : Unsigned(text)[i] = "."}) <= 1

\* read_number after its loop and after the trailing-dot check: the literal.
read_number_build(s, base, floating_point, value) ==
    IF floating_point
    THEN IF parse_f64_ok(value)
         THEN RetToken(s, StrValue("FloatingPointLiteral", value), value)
         ELSE RetInternal(s, "internal error while reading number")
    ELSE IF from_str_radix(value, base).ok
         THEN RetToken(s, NumValue("IntegerLiteral", from_str_radix(value, base).num), value)
         ELSE RetInternal(s, "internal error while reading number")

\* read_number after its loop: a '.' at the end of value is given back as a Dot.
read_number_finish(s, base, floating_point, value) ==
    IF value # <<>> /\ value[Len(value)] = "."
    THEN read_number_build(push_char(s, "."), base, FALSE, SubSeq(value, 1, Len(value) - 1))
    ELSE read_number_build(s, base, floating_point, value)

\* The arm that the match on the character c in read_number's loop takes.
read_number_match(c, base, value) ==
    IF c = "-" /\ value = <<>> THEN "-"
    ELSE IF c = "." /\ value = <<>> THEN "."
    ELSE IF c = "x" /\ value = <<>> THEN "x"
    ELSE IF c = "b" /\ value = <<>> THEN "b"
    ELSE IF c = "o" /\ value = <<>> THEN "o"
    ELSE IF is_numeric(c, base) THEN "is_numeric"
    ELSE "_"

\* read_number's loop, n being what next_char returned: the end of the
\* input, an error, or the arm that the match on the character takes.
RECURSIVE read_number_loop(_, _, _, _)
read_number_loop(n, base, floating_point, value) ==
    CASE n.tag = "None" -> read_number_finish(n.ts, base, floating_point, value)
      [] n.tag = "Err" -> RetIo(n.ts)
      [] n.tag = "Ok" /\ read_number_match(n.c, base, value) = "-" ->
            read_number_loop(next_char(n.ts), base, floating_point, Append(value, n.c))
      [] n.tag = "Ok" /\ read_number_match(n.c, base, value) = "." ->
            IF base # 10 \/ floating_point
            THEN RetError(n.ts, "unexpected character '.' in a number literal")
            ELSE read_number_loop(next_char(n.ts), base, TRUE, value)
      [] n.tag = "Ok" /\ read_number_match(n.c, base, value) = "x" ->
            read_number_loop(next_char(n.ts), 16, floating_point, value)
      [] n.tag = "Ok" /\ read_number_match(n.c, base, value) = "b" ->
            read_number_loop(next_char(n.ts), 2, floating_point, value)
      [] n.tag = "Ok" /\ read_number_match(n.c, base, value) = "o" ->
            read_number_loop(next_char(n.ts), 8, floating_point, value)
      [] n.tag = "Ok" /\ read_number_match(n.c, base, value) = "is_numeric" ->
            read_number_loop(next_char(n.ts), base, floating_point, Append(value, n.c))
      [] n.tag = "Ok" /\ read_number_match(n.c, base, value) = "_" ->
            IF is_alphanumeric(n.c) \/ n.c = "_"
            THEN RetError(n.ts, "unexpected character in a number literal")
            ELSE read_number_finish(push_char(n.ts, n.c), base, floating_point, value)

\* TokenStream::read_number
read_number(s) == read_number_loop(next_char(s), 10, FALSE, <<>>)

\* ---- string and char literals
\* What read_escape_sequence returns: the stream, and Ok(c) or Err(err).
EscRet(s, ok, c, err) == [ts |-> s, ok |-> ok, c |-> c, err |-> err]

\* Mutant of read_escape_sequence_match: the escape r gives a carriage return.
read_escape_sequence_match_cr(n) ==
    CASE n.tag = "None" ->
            EscRet(n.ts, FALSE, "", error(n.ts, "EOF reached while reading escape sequence"))
      [] n.tag = "Err" -> EscRet(n.ts, FALSE, "", io_error(n.ts))
      [] OTHER ->
            IF n.c = "r" THEN EscRet(n.ts, TRUE, "\r", NoError)
            ELSE IF n.c = "n" THEN EscRet(n.ts, TRUE, "\n", NoError)
            ELSE IF n.c = "t" THEN EscRet(n.ts, TRUE, "\t", NoError)
            ELSE IF n.c \in {"\\", "'", "\""} THEN EscRet(n.ts, TRUE, n.c, NoError)
            ELSE EscRet(n.ts, FALSE, "", error(n.ts, "invalid character in escape sequence"))

\* The match of read_escape_sequence on the character n.
read_escape_sequence_match(n) ==
    CASE n.tag = "None" ->
            EscRet(n.ts, FALSE, "", error(n.ts, "EOF reached while reading escape sequence"))
      [] n.tag = "Err" -> EscRet(n.ts, FALSE, "", io_error(n.ts))
      [] OTHER ->
            IF n.c \in {"r", "n"} THEN EscRet(n.ts, TRUE, "\n", NoError)
            ELSE IF n.c = "t" THEN EscRet(n.ts, TRUE, "\t", NoError)
            ELSE IF n.c \in {"\\", "'", "\""} THEN EscRet(n.ts, TRUE, n.c, NoError)
            ELSE EscRet(n.ts, FALSE, "", error(n.ts, "invalid character in escape sequence"))

\* TokenStream::read_escape_sequence
read_escape_sequence(s) == read_escape_sequence_match(next_char(s))

\* One turn of read_string's loop on the character n that next_char returned.
RECURSIVE read_string_loop(_, _)
read_string_escape(e, buf) ==
    IF e.ok THEN read_string_loop(e.ts, Append(buf, e.c)) ELSE Ret(e.ts, ErrRes(e.err))

read_string_step(n, buf) ==
    CASE n.tag = "None" -> RetError(n.ts, "unexpected EOF while reading unterminated string")
      [] n.tag = "Err" -> RetIo(n.ts)
      [] OTHER ->
            IF n.c = "\"" THEN RetToken(n.ts, StrValue("StringLiteral", buf),
                                        <<"\"">> \o buf \o <<"\"">>)
            ELSE IF n.c = "\\" THEN read_string_escape(read_escape_sequence(n.ts), buf)
            ELSE read_string_loop(n.ts, Append(buf, n.c))

read_string_loop(s, buf) == read_string_step(next_char(s), buf)

\* TokenStream::read_string
read_string(s) == read_string_loop(s, <<>>)

\* Mutant of read_char_close_match: any character closes the literal.
read_char_close_match_any(n, c) ==
    CASE n.tag = "None" -> RetError(n.ts, "unexpected EOF while reading unterminated string")
      [] n.tag = "Err" -> RetIo(n.ts)
      [] OTHER -> RetToken(n.ts, StrValue("CharLiteral", <<c>>), <<"'", c, "'">>)

\* read_char, its second match: the closing quote.
read_char_close_match(n, c) ==
    CASE n.tag = "None" -> RetError(n.ts, "unexpected EOF while reading unterminated string")
      [] n.tag = "Err" -> RetIo(n.ts)
      [] OTHER ->
            IF n.c = "'" THEN RetToken(n.ts, StrValue("CharLiteral", <<c>>), <<"'", c, "'">>)
            ELSE RetError(n.ts, "character literals can only contain one character")

read_char_close(s, c) == read_char_close_match(next_char(s), c)

read_char_escape(e) ==
    IF e.ok THEN read_char_close(e.ts, e.c) ELSE Ret(e.ts, ErrRes(e.err))

\* read_char, its first match: the character of the literal.
read_char_match(n) ==
    CASE n.tag = "None" -> RetError(n.ts, "unexpected EOF while reading character literal")
      [] n.tag = "Err" -> RetIo(n.ts)
      [] OTHER ->
            IF n.c = "'" THEN RetError(n.ts, "character literal cannot be empty")
            ELSE IF n.c = "\\" THEN read_char_escape(read_escape_sequence(n.ts))
            ELSE read_char_close(n.ts, n.c)

\* TokenStream::read_char (the char-literal reader)
read_char(s) == read_char_match(next_char(s))

\* ---- operators
\* The operator strings build_operator knows, with the token value of each.
OperatorTable ==
    { [text |-> <<"+">>, value |-> OpValue("BinaryOperator", "Add")],
      [text |-> <<"-">>, value |-> OpValue("BinaryOperator", "Subtract")],
      [text |-> <<"*">>, value |-> OpValue("BinaryOperator", "Multiply")],
      [text |-> <<"/">>, value |-> OpValue("BinaryOperator", "Divide")],
      [text |-> <<"%">>, value |-> OpValue("BinaryOperator", "Modulo")],
      [text |-> <<"|">>, value |-> OpValue("BinaryOperator", "BinaryOr")],
      [text |-> <<"&">>, value |-> OpValue("BinaryOperator", "BinaryAnd")],
      [text |-> <<"^">>, value |-> OpValue("BinaryOperator", "Xor")],
      [text |-> <<"|","|">>, value |-> OpValue("BinaryOperator", "LogicalOr")],
      [text |-> <<"&","&">>, value |-> OpValue("BinaryOperator", "LogicalAnd")],
      [text |-> <<"<","<">>, value |-> OpValue("BinaryOperator", "ShiftLeft")],
      [text |-> <<">",">">>, value |-> OpValue("BinaryOperator", "ShiftRight")],
      [text |-> <<"=","=">>, value |-> OpValue("Comparison", "Equals")],
      [text |-> <<">">>, value |-> OpValue("Comparison", "GreaterThan")],
      [text |-> <<"<">>, value |-> OpValue("Comparison", "LessThan")],
      [text |-> <<">","=">>, value |-> OpValue("Comparison", "GreaterThanOrEquals")],
      [text |-> <<"<","=">>, value |-> OpValue("Comparison", "LessThanOrEquals")],
      [text |-> <<"!","=">>, value |-> OpValue("Comparison", "NotEquals")],
      [text |-> <<"!">>, value |-> OpValue("UnaryOperator", "Not")],
      [text |-> <<"+","+">>, value |-> OpValue("UnaryOperator", "Increment")],
      [text |-> <<"-","-">>, value |-> OpValue("UnaryOperator", "Decrement")],
      [text |-> <<"=">>, value |-> OpValue("Assignment", "Assign")],
      [text |-> <<"+","=">>, value |-> OpValue("Assignment", "AssignAfter(Add)")],
      [text |-> <<"-","=">>, value |-> OpValue("Assignment", "AssignAfter(Subtract)")],
      [text |-> <<"*","=">>, value |-> OpValue("Assignment", "AssignAfter(Multiply)")],
      [text |-> <<"/","=">>, value |-> OpValue("Assignment", "AssignAfter(Divide)")],
      [text |-> <<"%","=">>, value |-> OpValue("Assignment", "AssignAfter(Modulo)")],
      [text |-> <<"|","=">>, value |-> OpValue("Assignment", "AssignAfter(BinaryOr)")],
      [text |-> <<"&","=">>, value |-> OpValue("Assignment", "AssignAfter(BinaryAnd)")],
      [text |-> <<"^","=">>, value |-> OpValue("Assignment", "AssignAfter(Xor)")],
      [text |-> <<"|","|","=">>, value |-> OpValue("Assignment", "AssignAfter(LogicalOr)")],
      [text |-> <<"&","&","=">>, value |-> OpValue("Assignment", "AssignAfter(LogicalAnd)")],
      [text |-> <<"<","<","=">>, value |-> OpValue("Assignment", "AssignAfter(ShiftLeft)")],
      [text |-> <<">",">","=">>, value |-> OpValue("Assignment", "AssignAfter(ShiftRight)")] }

OperatorTexts == {e.text : e \in OperatorTable}

\* TokenStream::build_operator
build_operator(s, o) ==
    IF o \in OperatorTexts
    THEN RetToken(s, (CHOOSE e \in OperatorTable : e.text = o).value, o)
    ELSE RetInternal(s, "unknown operator string")

\* read_operator, first arm: = * / % ^ !  (c or c=), on the second character n
read_operator_assignable(n, c1) ==
    CASE n.tag = "Err" -> RetIo(n.ts)
      [] n.tag = "None" -> build_operator(n.ts, <<c1>>)
      [] OTHER ->
            IF n.c = "=" THEN build_operator(n.ts, <<c1, n.c>>)
            ELSE build_operator(push_char(n.ts, n.c), <<c1>>)

\* Mutant of the second arm: the character that ends the operator is not pushed back.
RECURSIVE read_operator_doubling_loop(_, _, _)
read_operator_doubling_drops(n, c1, res) ==
    CASE n.tag = "Err" -> RetIo(n.ts)
      [] n.tag = "None" -> build_operator(n.ts, res)
      [] OTHER ->
            IF c1 = n.c /\ Len(res) = 1
            THEN read_operator_doubling_loop(n.ts, c1, Append(res, n.c))
            ELSE IF n.c = "=" THEN build_operator(n.ts, Append(res, n.c))
            ELSE build_operator(n.ts, res)

\* read_operator, second arm: & | < >  (c, cc, c= or cc=), one turn of its
\* loop on the character n
read_operator_doubling(n, c1, res) ==
    CASE n.tag = "Err" -> RetIo(n.ts)
      [] n.tag = "None" -> build_operator(n.ts, res)
      [] OTHER ->
            IF c1 = n.c /\ Len(res) = 1
            THEN read_operator_doubling_loop(n.ts, c1, Append(res, n.c))
            ELSE IF n.c = "=" THEN build_operator(n.ts, Append(res, n.c))
            ELSE build_operator(push_char(n.ts, n.c), res)

read_operator_doubling_loop(s, c1, res) == read_operator_doubling(next_char(s), c1, res)

\* read_operator, third arm: + -  (c, cc or c=), on the second character n
read_operator_additive(n, c1) ==
    CASE n.tag = "Err" -> RetIo(n.ts)
      [] n.tag = "None" -> build_operator(n.ts, <<c1>>)
      [] OTHER ->
            IF n.c = c1 \/ n.c = "=" THEN build_operator(n.ts, <<c1, n.c>>)
            ELSE build_operator(push_char(n.ts, n.c), <<c1>>)

\* The match of read_operator on its first character n.
read_operator_match(n) ==
    CASE n.tag = "None" -> Ret(n.ts, NoneRes)
      [] n.tag = "Err" -> RetIo(n.ts)
      [] OTHER ->
            IF n.c \in {"=", "*", "/", "%", "^", "!"}
            THEN read_operator_assignable(next_char(n.ts), n.c)
            ELSE IF n.c \in {"&", "|", "<", ">"}
            THEN read_operator_doubling_loop(n.ts, n.c, <<n.c>>)
            ELSE IF n.c \in {"+", "-"}
            THEN read_operator_additive(next_char(n.ts), n.c)
            ELSE RetError(n.ts, "unexpected character while reading operator token")

\* TokenStream::read_operator
read_operator(s) == read_operator_match(next_char(s))

\* ---- next_token and peek
\* The single-character tokens of next_token's match.
PunctuationValue(c) ==
    CASE c = "{" -> Value("OpenBrace")
      [] c = "}" -> Value("CloseBrace")
      [] c = "[" -> Value("OpenBracket")
      [] c = "]" -> Value("CloseBracket")
      [] c = "(" -> Value("OpenParen")
      [] c = ")" -> Value("CloseParen")
      [] c = "," -> Value("Comma")
      [] c = "." -> Value("Dot")
      [] OTHER -> NoValue

\* The match of next_token's loop on the character n that next_char returned.
RECURSIVE next_token_loop(_)
next_token_match(n) ==
    CASE n.tag = "None" -> Ret(n.ts, NoneRes)
      [] n.tag = "Err" -> RetIo(n.ts)
      [] OTHER ->
            IF n.c = "\n" THEN RetToken(n.ts, Value("Newline"), <<"\n">>)
            ELSE IF is_whitespace(n.c) THEN next_token_loop(n.ts)
            ELSE IF n.c = "_" \/ is_alphabetic(n.c) THEN read_ident(push_char(n.ts, n.c))
            ELSE IF char_is_numeric(n.c) THEN read_number(push_char(n.ts, n.c))
            ELSE IF PunctuationValue(n.c) # NoValue
            THEN RetToken(n.ts, PunctuationValue(n.c), <<n.c>>)
            ELSE IF n.c = "\"" THEN read_string(n.ts)
            ELSE IF n.c = "'" THEN read_char(n.ts)
            ELSE IF is_operator(n.c) THEN read_operator(push_char(n.ts, n.c))
            ELSE RetError(n.ts, "unexpected character")

\* The loop of next_token: the token's position is saved, then a character read.
next_token_loop(s) ==
    next_token_match(next_char([s EXCEPT !.token_column = s.stream_column,
                                         !.token_line = s.stream_line]))

\* TokenStream::next_token
next_token(s) ==
    IF s.cached_token.some
    THEN Ret([s EXCEPT !.cached_token = NoCached], OkRes(s.cached_token.tok))
    ELSE next_token_loop(s)

\* Mutant of peek_keep: the token read is returned but not kept for the next call.
peek_forgets(r) == r

\* peek, its match on the result r of next_token: a token is cached.
peek_keep(r) ==
    IF r.res.tag = "Ok"
    THEN Ret([r.ts EXCEPT !.cached_token = Cached(r.res.tok)], r.res)
    ELSE r

\* TokenStream::peek
peek(s) == peek_keep(next_token(s))

\* ==================================================================
\* parser
\* ==================================================================
\* ---- lang::Expression
NoExpr == [kind |-> "", namespace |-> <<>>, name |-> <<>>, lit |-> NoValue,
           op |-> "", function |-> <<>>, args |-> <<>>, first_token |-> NoToken]

\* Expression::identifier: the last word is the name, the others the namespace.
Expression_identifier(words, first_token) ==
    [NoExpr EXCEPT !.kind = "Identifier",
                   !.namespace = IF words = <<>> THEN <<>>
                                 ELSE SubSeq(words, 1, Len(words) - 1),
                   !.name = IF words = <<>> THEN <<>> ELSE words[Len(words)],
                   !.first_token = first_token]

\* Expression::literal_int, literal_float, literal_string, literal_char, literal_bool
Expression_literal(v, first_token) ==
    [NoExpr EXCEPT !.kind = "Literal", !.lit = v, !.first_token = first_token]

\* Expression::unary_not, unary_minus, unary_plus
Expression_unary(operator, operand, first_token) ==
    [NoExpr EXCEPT !.kind = "UnaryOperation", !.op = operator,
                   !.args = <<operand>>, !.first_token = first_token]

\* Expression::function_call
Expression_function_call(function, args) ==
    [NoExpr EXCEPT !.kind = "FunctionCall", !.function = <<function>>,
                   !.args = args, !.first_token = function.first_token]

\* ---- parser::Error
NoParserError == [kind |-> "", message |-> "", tok |-> NoToken, text |-> <<>>,
                  line |-> 0, column |-> 0, source |-> "", inner |-> NoError]

\* Error::new: the position is the stream's
Error_new(s, kind, message) ==
    [NoParserError EXCEPT !.kind = kind, !.message = message,
                          !.line = s.stream_line, !.column = s.stream_column,
                          !.source = stream_path]

\* An InvalidImport(import) built by Error::new
Error_invalid_import(s, import_path, message) ==
    [Error_new(s, "InvalidImport", message) EXCEPT !.text = import_path]

\* Error::redefined_symbol
redefined_symbol(s, ident) ==
    [NoParserError EXCEPT !.kind = "SymbolRedefined", !.message = "already defined",
                          !.text = ident,
                          !.line = s.stream_line, !.column = s.stream_column,
                          !.source = stream_path]

\* Error::unexpected_token: the position is the token's
unexpected_token(t, message) ==
    [NoParserError EXCEPT !.kind = "UnexpectedToken", !.message = message,
                          !.tok = t, !.line = t.line, !.column = t.column,
                          !.source = t.path]

\* Mutant of From_tokenizer_Error: the position of the tokenizer error is
\* not copied.
From_tokenizer_Error_unplaced(value) ==
    [NoParserError EXCEPT !.kind = "TokenizerError", !.message = "tokenizer error",
                          !.source = value.source, !.inner = value]

\* impl From<tokenizer::Error> for Error
From_tokenizer_Error(value) ==
    [NoParserError EXCEPT !.kind = "TokenizerError", !.message = "tokenizer error",
                          !.line = value.line, !.column = value.column,
                          !.source = value.source, !.inner = value]

\* ---- what a parser function returns: the stream afterwards and
\* Ok(value), Err(error), a panic ("Panic") or no return at all ("Diverges").
PRet(s, tag, err, expr, tok, flag, decls) ==
    [ts |-> s, tag |-> tag, err |-> err, expr |-> expr, tok |-> tok,
     flag |-> flag, decls |-> decls]
POk(s) == PRet(s, "Ok", NoParserError, NoExpr, NoToken, FALSE, <<>>)
POkExpr(s, e) == PRet(s, "Ok", NoParserError, e, NoToken, FALSE, <<>>)
POkToken(s, t) == PRet(s, "Ok", NoParserError, NoExpr, t, FALSE, <<>>)
POkFlag(s, b) == PRet(s, "Ok", NoParserError, NoExpr, NoToken, b, <<>>)
POkDecls(s, d) == PRet(s, "Ok", NoParserError, NoExpr, NoToken, FALSE, d)
PErr(s, e) == PRet(s, "Err", e, NoExpr, NoToken, FALSE, <<>>)
PPanic(s) == PRet(s, "Panic", NoParserError, NoExpr, NoToken, FALSE, <<>>)
PDiverges(s) == PRet(s, "Diverges", NoParserError, NoExpr, NoToken, FALSE, <<>>)

\* ---- token_matcher: a matcher is the set of token kinds it accepts (and the
\* operator, where it asks for one), or the negation of such a set.
Matcher(kinds, o, neg) == [kinds |-> kinds, op |-> o, neg |-> neg]
Matches(matcher, t) ==
    (t.value.kind \in matcher.kinds /\ (matcher.op = "" \/ t.value.op = matcher.op))
        # matcher.neg

identifier == Matcher({"Identifier"}, "", FALSE)
newline == Matcher({"Newline"}, "", FALSE)
comma == Matcher({"Comma"}, "", FALSE)
close_paren == Matcher({"CloseParen"}, "", FALSE)
either(term1, term2) == Matcher(term1.kinds \cup term2.kinds, "", FALSE)
\* the closures of parser/mod.rs
open_brace == Matcher({"OpenBrace"}, "", FALSE)
close_brace == Matcher({"CloseBrace"}, "", FALSE)
assign == Matcher({"Assignment"}, "Assign", FALSE)
comma_or_newline == Matcher({"Comma", "Newline"}, "", FALSE)
\* |t| !matcher(t)
negate(matcher) == [matcher EXCEPT !.neg = ~matcher.neg]

\* enum OperatorPrecedence, its variants in the order of their declaration;
\* the derived Ord compares variants by that order.
OperatorPrecedence ==
    << "NotAnOperator", "UnaryOperator", "Multiplication", "Sum", "BitwiseShift",
       "Comparison", "BitwiseAnd", "BitwiseXor", "BitwiseOr", "LogicalAnd",
       "LogicalOr" >>
Discriminant(p) == CHOOSE i \in DOMAIN OperatorPrecedence : OperatorPrecedence[i] = p

\* impl From<&Token> for OperatorPrecedence.  The comparison arms name
\* BinaryOperator variants; a TokenValue::Comparison token, as every other
\* value, takes the last arm.
OperatorPrecedence_from(t) ==
    CASE t.value.kind = "UnaryOperator" -> "UnaryOperator"
      [] t.value.kind = "BinaryOperator" ->
            ( CASE t.value.op \in {"Add", "Subtract"} -> "Sum"
                [] t.value.op \in {"Multiply", "Divide", "Modulo"} -> "Multiplication"
                [] t.value.op = "BinaryOr" -> "BitwiseOr"
                [] t.value.op = "BinaryAnd" -> "BitwiseAnd"
                [] t.value.op = "Xor" -> "BitwiseXor"
                [] t.value.op = "LogicalOr" -> "LogicalOr"
                [] t.value.op = "LogicalAnd" -> "LogicalAnd"
                [] t.value.op \in {"ShiftLeft", "ShiftRight"} -> "BitwiseShift"
                [] t.value.op \in {"Equals", "GreaterThan", "LessThan",
                                   "GreaterThanOrEquals", "LessThanOrEquals",
                                   "NotEquals"} -> "Comparison" )
      [] OTHER -> "NotAnOperator"

\* term_delimiter_for(t1)(t2): the closure made for t1, applied to t2
term_delimiter_for(t1, t2) ==
    Discriminant(OperatorPrecedence_from(t2)) > Discriminant(OperatorPrecedence_from(t1))

\* ---- the helpers of parser/mod.rs
\* ensure_next_token, on what peek returned
ensure_next_token_peeked(r, matcher, error_message) ==
    CASE r.res.tag = "None" -> PErr(r.ts, Error_new(r.ts, "UnexpectedEOF", error_message))
      [] r.res.tag = "Err" -> PErr(r.ts, From_tokenizer_Error(r.res.err))
      [] OTHER ->
            IF Matches(matcher, r.res.tok) THEN POk(r.ts)
            ELSE PErr(r.ts, unexpected_token(r.res.tok, error_message))

ensure_next_token(s, matcher, error_message) ==
    ensure_next_token_peeked(peek(s), matcher, error_message)

\* consume_token, on what next_token returned
consume_token_next(r, matcher, error_message) ==
    CASE r.res.tag = "None" -> PErr(r.ts, Error_new(r.ts, "UnexpectedEOF", ""))
      [] r.res.tag = "Err" -> PErr(r.ts, From_tokenizer_Error(r.res.err))
      [] OTHER ->
            IF Matches(matcher, r.res.tok) THEN POkToken(r.ts, r.res.tok)
            ELSE PErr(r.ts, unexpected_token(r.res.tok, error_message))

consume_token(s, matcher, error_message) ==
    consume_token_next(next_token(s), matcher, error_message)

\* skip_until: one turn of its loop, on what peek returned
RECURSIVE skip_until(_, _)
skip_until_peeked(r, matcher) ==
    CASE r.res.tag = "None" -> skip_until(r.ts, matcher)
      [] r.res.tag = "Err" -> PErr(r.ts, From_tokenizer_Error(r.res.err))
      [] OTHER ->
            IF Matches(matcher, r.res.tok) THEN POk(r.ts)
            ELSE skip_until(next_token(r.ts).ts, matcher)

skip_until(s, matcher) ==
    IF is_empty(s) THEN POk(s) ELSE skip_until_peeked(peek(s), matcher)

skip_while(s, matcher) == skip_until(s, negate(matcher))

\* scan_for_keyword, on what peek returned.  The allow-list is looked up
\* (non_error_keywords.contains) and the outcome of the lookup is not used.
scan_for_keyword_peeked(r, keyword, non_error_keywords) ==
    CASE r.res.tag = "None" -> POkFlag(r.ts, FALSE)
      [] r.res.tag = "Err" -> PErr(r.ts, From_tokenizer_Error(r.res.err))
      [] OTHER ->
            IF r.res.tok.value = Value(keyword)
            THEN POkFlag(next_token(r.ts).ts, TRUE)
            ELSE PErr(r.ts, unexpected_token(r.res.tok, "while looking for block"))

scan_for_keyword_skipped(p, keyword, non_error_keywords) ==
    IF p.tag # "Ok" THEN p
    ELSE scan_for_keyword_peeked(peek(p.ts), keyword, non_error_keywords)

scan_for_keyword(s, keyword, non_error_keywords) ==
    scan_for_keyword_skipped(skip_while(s, newline), keyword, non_error_keywords)

\* ---- parser::expression
RECURSIVE parse(_, _)
RECURSIVE parse_loop(_, _, _)
RECURSIVE parse_call_args(_, _, _, _)
RECURSIVE parse_identifier_loop(_, _, _, _, _)

LiteralKinds == {"IntegerLiteral", "FloatingPointLiteral", "StringLiteral",
                 "CharLiteral", "BoolLiteral"}

\* parse_identifier after its loop: no word read is an error, else the identifier
parse_identifier_empty(r) ==
    CASE r.res.tag = "None" ->
            PErr(r.ts, Error_new(r.ts, "UnexpectedEOF", "unexpected EOF, identifier expected"))
      [] r.res.tag = "Err" -> PErr(r.ts, From_tokenizer_Error(r.res.err))
      [] OTHER -> PErr(r.ts, unexpected_token(r.res.tok, "expected identifier"))

parse_identifier_finish(s, words, first_token) ==
    IF words = <<>> THEN parse_identifier_empty(peek(s))
    ELSE POkExpr(s, Expression_identifier(words, first_token))

\* One turn of parse_identifier's loop, on what peek returned.  An identifier
\* where a dot must come, or a dot where an identifier must come, builds an
\* error value that is dropped and consumes nothing: the next turn peeks the
\* same token with the same words and must_dot, so the loop never ends.
parse_identifier_peeked(r, words, must_dot, first_token, terminator) ==
    CASE r.res.tag = "None" -> parse_identifier_finish(r.ts, words, first_token)
      [] r.res.tag = "Err" -> PErr(r.ts, From_tokenizer_Error(r.res.err))
      [] OTHER ->
            IF r.res.tok.value.kind = "Identifier"
            THEN IF ~must_dot
                 THEN parse_identifier_loop(next_token(r.ts).ts,
                                            Append(words, r.res.tok.value.str),
                                            TRUE, first_token, terminator)
                 ELSE PDiverges(r.ts)
            ELSE IF r.res.tok.value.kind = "Dot"
            THEN IF must_dot
                 THEN parse_identifier_loop(next_token(r.ts).ts, words, FALSE,
                                            first_token, terminator)
                 ELSE PDiverges(r.ts)
            ELSE IF r.res.tok.value.kind \in
                        {"UnaryOperator", "BinaryOperator", "Assignment", "Comma",
                         "Newline", "OpenBracket"}
            THEN parse_identifier_finish(r.ts, words, first_token)
            ELSE IF Matches(terminator, r.res.tok)
            THEN parse_identifier_finish(r.ts, words, first_token)
            ELSE PErr(r.ts, unexpected_token(r.res.tok, "while parsing identifier"))

parse_identifier_loop(s, words, must_dot, first_token, terminator) ==
    parse_identifier_peeked(peek(s), words, must_dot, first_token, terminator)

\* parse_identifier, on what its first peek returned
parse_identifier_first(r, terminator) ==
    CASE r.res.tag = "None" ->
            PErr(r.ts, Error_new(r.ts, "UnexpectedEOF", "unexpected EOF, identifier expected"))
      [] r.res.tag = "Err" -> PErr(r.ts, From_tokenizer_Error(r.res.err))
      [] OTHER -> parse_identifier_loop(r.ts, <<>>, FALSE, r.res.tok, terminator)

\* expression::parse_identifier
parse_identifier(s, terminator) == parse_identifier_first(peek(s), terminator)

\* parse, a unary operator: p is what parse returned for the operand
parse_unary(p, operator, first_token) ==
    IF p.tag # "Ok" THEN p
    ELSE POkExpr(p.ts, Expression_unary(operator, p.expr, first_token))

\* parse, the match on the unary operator v after the operand was parsed. The
\* arms are Not, Minus and Plus; the tokenizer's UnaryOperator is Not,
\* Increment or Decrement, and for the last two there is no arm and no
\* Expression constructor: no expression is returned.
parse_unary_match(p, v, first_token) ==
    CASE p.tag # "Ok" -> p
      [] v \in {"Not", "Minus", "Plus"} -> parse_unary(p, v, first_token)
      [] OTHER -> PPanic(p.ts)

\* parse, a parenthesised expression: c is what consume_token returned for `)`
parse_paren_close(c, sub_expression) ==
    IF c.tag # "Ok" THEN c ELSE POkExpr(c.ts, sub_expression)

\* parse, a parenthesised expression: p is what parse returned for the inside
parse_paren(p) ==
    IF p.tag # "Ok" THEN p
    ELSE parse_paren_close(consume_token(p.ts, close_paren, ""), p.expr)

\* parse, the match on the first token: the first sub-expression
parse_first_subexp(s, first_token, terminator) ==
    CASE first_token.value.kind = "Identifier" -> parse_identifier(s, terminator)
      [] first_token.value.kind \in LiteralKinds ->
            POkExpr(next_token(s).ts,
                    Expression_literal(first_token.value, next_token(s).res.tok))
      [] first_token.value.kind = "UnaryOperator" ->
            parse_unary_match(parse(next_token(s).ts, terminator),
                              first_token.value.op, first_token)
      [] first_token.value = OpValue("BinaryOperator", "Subtract") ->
            parse_unary(parse(next_token(s).ts, terminator), "Minus", first_token)
      [] first_token.value = OpValue("BinaryOperator", "Add") ->
            parse_unary(parse(next_token(s).ts, terminator), "Plus", first_token)
      [] first_token.value.kind = "OpenParen" ->
            parse_paren(parse(next_token(s).ts, close_paren))
      [] OTHER -> PErr(s, unexpected_token(first_token, "expecting an expression"))

\* The argument list of a call, after an argument: on what peek returned
parse_call_separator(r, function, args, terminator) ==
    CASE r.res.tag = "None" ->
            PErr(r.ts, Error_new(r.ts, "UnexpectedEOF", "unexpected EOF, expression expected"))
      [] r.res.tag = "Err" -> PErr(r.ts, From_tokenizer_Error(r.res.err))
      [] OTHER ->
            IF r.res.tok.value.kind = "CloseParen"
            THEN parse_loop(next_token(r.ts).ts,
                            Expression_function_call(function, args), terminator)
            ELSE IF r.res.tok.value.kind = "Comma"
            THEN parse_call_args(next_token(r.ts).ts, function, args, terminator)
            ELSE PErr(r.ts, unexpected_token(r.res.tok,
                                             "while parsing function call argument list"))

\* The argument list of a call: p is what parse returned for one argument
parse_call_arg(p, function, args, terminator) ==
    IF p.tag # "Ok" THEN p
    ELSE parse_call_separator(peek(p.ts), function, Append(args, p.expr), terminator)

parse_call_args(s, function, args, terminator) ==
    parse_call_arg(parse(s, either(close_paren, comma)), function, args, terminator)

\* Mutant of parse_loop_peeked: the token that satisfies the terminator is
\* consumed.
parse_loop_peeked_consumes(r, first_subexp, terminator) ==
    CASE r.res.tag = "None" -> POkExpr(r.ts, first_subexp)
      [] r.res.tag = "Err" -> PErr(r.ts, From_tokenizer_Error(r.res.err))
      [] OTHER ->
            IF Matches(terminator, r.res.tok)
            THEN POkExpr(next_token(r.ts).ts, first_subexp)
            ELSE IF first_subexp.kind = "Identifier" /\ r.res.tok.value.kind = "OpenParen"
            THEN parse_call_args(next_token(r.ts).ts, first_subexp, <<>>, terminator)
            ELSE IF r.res.tok.value.kind = "Dot"
            THEN PErr(r.ts, unexpected_token(r.res.tok,
                        "member access is only supported for identifier expressions"))
            ELSE IF r.res.tok.value.kind = "BinaryOperator"
            THEN PPanic(r.ts)
            ELSE IF r.res.tok.value.kind = "OpenBracket"
            THEN PErr(r.ts, unexpected_token(r.res.tok,
                        "list member access is not implemented yet"))
            ELSE PErr(r.ts, unexpected_token(r.res.tok, "while parsing expression"))

\* One turn of parse's loop after the first sub-expression, on what peek returned
parse_loop_peeked(r, first_subexp, terminator) ==
    CASE r.res.tag = "None" -> POkExpr(r.ts, first_subexp)
      [] r.res.tag = "Err" -> PErr(r.ts, From_tokenizer_Error(r.res.err))
      [] OTHER ->
            IF Matches(terminator, r.res.tok) THEN POkExpr(r.ts, first_subexp)
            ELSE IF first_subexp.kind = "Identifier" /\ r.res.tok.value.kind = "OpenParen"
            THEN parse_call_args(next_token(r.ts).ts, first_subexp, <<>>, terminator)
            ELSE IF r.res.tok.value.kind = "Dot"
            THEN PErr(r.ts, unexpected_token(r.res.tok,
                        "member access is only supported for identifier expressions"))
            ELSE IF r.res.tok.value.kind = "BinaryOperator"
            THEN PPanic(r.ts)
            ELSE IF r.res.tok.value.kind = "OpenBracket"
            THEN PErr(r.ts, unexpected_token(r.res.tok,
                        "list member access is not implemented yet"))
            ELSE PErr(r.ts, unexpected_token(r.res.tok, "while parsing expression"))

parse_loop(s, first_subexp, terminator) ==
    parse_loop_peeked(peek(s), first_subexp, terminator)

\* parse, after the first sub-expression p
parse_after_first(p, terminator) ==
    IF p.tag # "Ok" THEN p ELSE parse_loop(p.ts, p.expr, terminator)

\* parse, on what its first peek returned
parse_first(r, terminator) ==
    CASE r.res.tag = "None" ->
            PErr(r.ts, Error_new(r.ts, "UnexpectedEOF", "unexpected EOF, expression expected"))
      [] r.res.tag = "Err" -> PErr(r.ts, From_tokenizer_Error(r.res.err))
      [] OTHER -> parse_after_first(parse_first_subexp(r.ts, r.res.tok, terminator),
                                    terminator)

\* expression::parse
parse(s, terminator) == parse_first(peek(s), terminator)

\* ---- declaration blocks
\* impl From<&str> for Type: a primitive by exact name, else a struct reference
PrimitiveTypes ==
    { <<"t","e","x","t">>, <<"c","h","a","r">>, <<"b","o","o","l">>, <<"i","n","t">>,
      <<"i","n","t","8">>, <<"i","n","t","1","6">>, <<"i","n","t","3","2">>,
      <<"i","n","t","6","4">>, <<"u","i","n","t">>, <<"u","i","n","t","8">>,
      <<"u","i","n","t","1","6">>, <<"u","i","n","t","3","2">>,
      <<"u","i","n","t","6","4">>, <<"f","l","o","a","t">>,
      <<"f","l","o","a","t","3","2">>, <<"f","l","o","a","t","6","4">> }
Type_from(value) == [struct |-> value \notin PrimitiveTypes, name |-> value]

\* parse_type: the identifier token of the type
parse_type(s) == consume_token(s, identifier, "expected type definition")

\* struct Declaration
Declaration(ident, ttype, value) ==
    [identifier |-> ident.value.str, ttype |-> ttype, value |-> value,
     first_token |-> ident]

RECURSIVE parse_declaration_block_loop(_, _)

\* parse_declaration_block, the closing brace
parse_declaration_block_closed(c, res) ==
    IF c.tag # "Ok" THEN c ELSE POkDecls(c.ts, res)

parse_declaration_block_close(s, res) ==
    parse_declaration_block_closed(
        consume_token(s, close_brace, "expected '}' at the end of a const block"), res)

\* parse_declaration_block, one declaration: the value, p being what parse returned
parse_declaration_block_value(p, ident, ttype, res) ==
    IF p.tag # "Ok" THEN p
    ELSE parse_declaration_block_loop(p.ts, Append(res, Declaration(ident, ttype, p.expr)))

\* ... the `=`, c being what consume_token returned
parse_declaration_block_assign(c, ident, ttype, res) ==
    IF c.tag # "Ok" THEN c
    ELSE parse_declaration_block_value(parse(c.ts, newline), ident, ttype, res)

\* ... the type, t being what parse_type returned
parse_declaration_block_type(t, ident, res) ==
    IF t.tag # "Ok" THEN t
    ELSE parse_declaration_block_assign(consume_token(t.ts, assign, "expected '='"),
                                        ident, Type_from(t.tok.value.str), res)

\* ... the identifier, c being what consume_token returned
parse_declaration_block_ident(c, res) ==
    IF c.tag # "Ok" THEN c
    ELSE parse_declaration_block_type(parse_type(c.ts), c.tok, res)

\* One turn of parse_declaration_block's loop, on what peek returned
parse_declaration_block_peeked(r, res) ==
    CASE r.res.tag = "None" -> parse_declaration_block_close(r.ts, res)
      [] r.res.tag = "Err" -> PErr(r.ts, From_tokenizer_Error(r.res.err))
      [] OTHER ->
            IF r.res.tok.value.kind = "CloseBrace"
            THEN parse_declaration_block_close(r.ts, res)
            ELSE parse_declaration_block_ident(
                    consume_token(r.ts, identifier, "expected identifier or '}'"), res)

parse_declaration_block_loop(s, res) == parse_declaration_block_peeked(peek(s), res)

\* parse_declaration_block, the opening brace
parse_declaration_block_opened(c) ==
    IF c.tag # "Ok" THEN c ELSE parse_declaration_block_loop(c.ts, <<>>)

parse_declaration_block_skipped(p) ==
    IF p.tag # "Ok" THEN p
    ELSE parse_declaration_block_opened(
            consume_token(p.ts, open_brace, "const and var blocks should start with a '{'"))

\* parse_declaration_block
parse_declaration_block(s) == parse_declaration_block_skipped(skip_while(s, newline))

\* ---- Parser: what a method returns is the stream and the module afterwards
\* and Ok(()), Err(error) or a panic.
MRet(s, m, tag, err) == [ts |-> s, m |-> m, tag |-> tag, err |-> err]
MOk(s, m) == MRet(s, m, "Ok", NoParserError)
\* the error (or panic) p of a helper, passed on by `?`
MFrom(p, m) == MRet(p.ts, m, p.tag, p.err)

\* Symbol::new_import
new_import(import_path) == [ident |-> import_path, local_alias |-> <<>>]
\* Symbol::new_const, Symbol::new_var: the payload of the symbol
new_declared(decl) == [ttype |-> decl.ttype, value |-> decl.value,
                       first_token |-> decl.first_token]

\* Module::define for a Symbol::Import: fails without mutating if lookup
\* resolves the name, else inserts into the imports store.
define_import(m, ident, imp) ==
    IF lookup(m, ident).some
    THEN [m |-> m, ok |-> FALSE]
    ELSE [m |-> [m EXCEPT !.imports = Insert(@, ident, [imp EXCEPT !.local_alias = ident])],
          ok |-> TRUE]

\* the texts of the tokens, joined
RECURSIVE JoinTexts(_)
JoinTexts(parts) == IF parts = <<>> THEN <<>> ELSE Head(parts).text \o JoinTexts(Tail(parts))

\* Mutant of complete_import_define: a failed define is not reported.
complete_import_ignores_define(s, d, ident) == MOk(s, d.m)

\* complete_import, the outcome d of Module::define
complete_import_define(s, d, ident) ==
    IF d.ok THEN MOk(s, d.m) ELSE MRet(s, d.m, "Err", redefined_symbol(s, ident))

\* complete_import, the local name: the alias, else the last segment of the path
complete_import_ident(import_path, alias) ==
    IF alias = <<>> THEN LastSegment(import_path) ELSE alias

\* complete_import on the joined path
complete_import_path(m, s, import_path, alias) ==
    IF import_path # <<>> /\ (import_path[Len(import_path)] = "." \/ import_path[1] = ".")
    THEN MRet(s, m, "Err",
              Error_invalid_import(s, import_path, "import cannot start or end with '.'"))
    ELSE IF import_path = <<>>
    THEN MRet(s, m, "Err", Error_invalid_import(s, import_path, "empty import"))
    ELSE complete_import_define(
            s, define_import(m, complete_import_ident(import_path, alias),
                             new_import(import_path)),
            complete_import_ident(import_path, alias))

\* Parser::complete_import
complete_import(m, s, current_parts, alias) ==
    complete_import_path(m, s, JoinTexts(current_parts), alias)

\* ---- the use block
RECURSIVE maybe_parse_use_block_loop(_, _, _)

\* after complete_import at a comma or a newline: the loop goes on
maybe_parse_use_block_completed(ci) ==
    IF ci.tag # "Ok" THEN ci ELSE maybe_parse_use_block_loop(ci.m, ci.ts, <<>>)

\* after an alias: e is what ensure_next_token returned
maybe_parse_use_block_ensured(m, e) ==
    IF e.tag # "Ok" THEN MFrom(e, m) ELSE maybe_parse_use_block_loop(m, e.ts, <<>>)

\* after an alias: ci is what complete_import returned
maybe_parse_use_block_aliased(ci) ==
    IF ci.tag # "Ok" THEN ci
    ELSE maybe_parse_use_block_ensured(
            ci.m, ensure_next_token(ci.ts, comma_or_newline, "while parsing import alias"))

\* after `as`: c is what consume_token returned for the alias
maybe_parse_use_block_alias(m, c, current_parts) ==
    IF c.tag # "Ok" THEN MFrom(c, m)
    ELSE maybe_parse_use_block_aliased(complete_import(m, c.ts, current_parts, c.tok.text))

\* One turn of the loop of maybe_parse_use_block, on what next_token returned
maybe_parse_use_block_next(m, r, current_parts) ==
    CASE r.res.tag = "None" ->
            MRet(r.ts, m, "Err",
                 Error_new(r.ts, "UnexpectedEOF", "missing ')' after 'use' block"))
      [] r.res.tag = "Err" -> MRet(r.ts, m, "Err", From_tokenizer_Error(r.res.err))
      [] OTHER ->
            IF r.res.tok.value.kind = "CloseBrace"
            THEN IF current_parts # <<>>
                 THEN complete_import(m, r.ts, current_parts, <<>>)
                 ELSE MOk(r.ts, m)
            ELSE IF r.res.tok.value.kind = "KeywordAs"
            THEN maybe_parse_use_block_alias(
                    m, consume_token(r.ts, identifier, "while parsing import alias"),
                    current_parts)
            ELSE IF r.res.tok.value.kind = "Newline"
            THEN IF current_parts # <<>>
                 THEN maybe_parse_use_block_completed(
                        complete_import(m, r.ts, current_parts, <<>>))
                 ELSE maybe_parse_use_block_loop(m, r.ts, current_parts)
            ELSE IF r.res.tok.value.kind = "Comma"
            THEN maybe_parse_use_block_completed(
                    complete_import(m, r.ts, current_parts, <<>>))
            ELSE IF r.res.tok.value.kind \in {"Identifier", "Dot"}
            THEN maybe_parse_use_block_loop(m, r.ts, Append(current_parts, r.res.tok))
            ELSE MRet(r.ts, m, "Err",
                      unexpected_token(r.res.tok, "while parsing 'use' block"))

maybe_parse_use_block_loop(m, s, current_parts) ==
    maybe_parse_use_block_next(m, next_token(s), current_parts)

\* the opening brace: c is what consume_token returned
maybe_parse_use_block_opened(m, c) ==
    IF c.tag # "Ok" THEN MFrom(c, m) ELSE maybe_parse_use_block_loop(m, c.ts, <<>>)

maybe_parse_use_block_skipped(m, p) ==
    IF p.tag # "Ok" THEN MFrom(p, m)
    ELSE maybe_parse_use_block_opened(
            m, consume_token(p.ts, open_brace, "use keyword should be followed by a '{'"))

\* p is what scan_for_keyword returned
maybe_parse_use_block_scanned(m, p) ==
    IF p.tag # "Ok" THEN MFrom(p, m)
    ELSE IF ~p.flag THEN MOk(p.ts, m)
    ELSE maybe_parse_use_block_skipped(m, skip_while(p.ts, newline))

\* Parser::maybe_parse_use_block
maybe_parse_use_block(m, s) ==
    maybe_parse_use_block_scanned(
        m, scan_for_keyword(s, "KeywordUse",
                            {"KeywordFunc", "KeywordTest", "KeywordStruct",
                             "KeywordConst", "KeywordVar"}))

\* ---- the const and var blocks
\* the loop over the declarations of a block: each is defined in the module
RECURSIVE define_declarations(_, _, _, _)
define_declarations_defined(d, s, decls, kind) ==
    IF d.ok THEN define_declarations(d.m, s, Tail(decls), kind)
    ELSE MRet(s, d.m, "Err", redefined_symbol(s, Head(decls).identifier))

define_declarations(m, s, decls, kind) ==
    IF decls = <<>> THEN MOk(s, m)
    ELSE define_declarations_defined(
            define(m, Head(decls).identifier, SomeSymbol(kind, new_declared(Head(decls)))),
            s, decls, kind)

\* p is what parse_declaration_block returned
maybe_parse_block_parsed(m, p, kind) ==
    IF p.tag # "Ok" THEN MFrom(p, m) ELSE define_declarations(m, p.ts, p.decls, kind)

\* p is what scan_for_keyword returned
maybe_parse_block_scanned(m, p, kind) ==
    IF p.tag # "Ok" THEN MFrom(p, m)
    ELSE IF ~p.flag THEN MOk(p.ts, m)
    ELSE maybe_parse_block_parsed(m, parse_declaration_block(p.ts), kind)

\* Parser::maybe_parse_const_block
maybe_parse_const_block(m, s) ==
    maybe_parse_block_scanned(
        m, scan_for_keyword(s, "KeywordConst",
                            {"KeywordFunc", "KeywordTest", "KeywordStruct", "KeywordVar"}),
        "Constant")

\* Parser::maybe_parse_var_block: the keyword it scans for is KeywordConst
maybe_parse_var_block(m, s) ==
    maybe_parse_block_scanned(
        m, scan_for_keyword(s, "KeywordConst",
                            {"KeywordFunc", "KeywordTest", "KeywordStruct"}),
        "Variable")

\* ---- the module body and add_source
\* parse_module_body after its peek: a tokenizer error is returned, else todo!()
parse_module_body_peeked(m, r) ==
    IF r.res.tag = "Err" THEN MRet(r.ts, m, "Err", From_tokenizer_Error(r.res.err))
    ELSE MRet(r.ts, m, "Panic", NoParserError)

parse_module_body_skipped(m, p) ==
    IF p.tag # "Ok" THEN MFrom(p, m) ELSE parse_module_body_peeked(m, peek(p.ts))

\* Parser::parse_module_body
parse_module_body(m, s) == parse_module_body_skipped(m, skip_while(s, newline))

\* add_source, the loop over the module body
RECURSIVE add_source_body(_)
add_source_body(x) ==
    IF x.tag # "Ok" \/ is_empty(x.ts) THEN x
    ELSE add_source_body(parse_module_body(x.m, x.ts))

\* add_source, a phase after the phase that returned x
add_source_const(x) == IF x.tag # "Ok" THEN x ELSE maybe_parse_const_block(x.m, x.ts)
add_source_var(x) == IF x.tag # "Ok" THEN x ELSE maybe_parse_var_block(x.m, x.ts)

\* Mutant of add_source: on an error the Module is as it was before the call.
Discarded(x, m) == IF x.tag = "Err" THEN [x EXCEPT !.m = m] ELSE x
add_source_discards(m, r) ==
    Discarded(add_source_body(add_source_var(add_source_const(
                  maybe_parse_use_block(m, NewStream(r))))), m)

\* Parser::add_source
add_source(m, r) ==
    add_source_body(add_source_var(add_source_const(maybe_parse_use_block(m, NewStream(r)))))

\* ==================================================================
\* The state machines
\* ==================================================================
\* ---- the texts a TokenStream is created over
RECURSIVE Texts(_, _)
Texts(alphabet, n) ==
    IF n = 0 THEN {<<>>}
    ELSE LET shorter == Texts(alphabet, n - 1) IN
         shorter \cup {Append(t, c) : t \in shorter, c \in alphabet}

Alphabet == {"a", "1", "+", ".", "\n", " ", "@", "("}
OperatorAlphabet == {"+", "-", "/", "*", "%", "!", "&", "|", "^", "=", "<", ">", "a"}

SampleTexts ==
    { <<"a","b","c","1","2","3"," ","+"," ","1">>,
      <<"a","+","b">>, <<"f","(">>, <<"i","f","\n">>,
      <<"0","x","1","F">>, <<"0","b","1","0">>, <<"0","o","1","7">>,
      <<"3",".","1","4">>, <<"1",".","2",".","3">>, <<"5",".">>,
      <<"<","<","=","1">>, <<"1","\n","\n","a">>,
      <<"\"","a","\\","t","b","\"">>, <<"'","a","'">>, <<"'","'">>,
      <<BadSeq, "a">>,
      <<"0","0","7">>, i128_MIN(10) }

\* TokenStream::new, and the observations before any call
InitStreamRest ==
    /\ stream_column = 1
    /\ stream_line = 1
    /\ token_column = 1
    /\ token_line = 1
    /\ lookahead_buf = <<>>
    /\ finished = FALSE
    /\ cached_token = NoCached
    /\ result = NoneRes
    /\ consumed = 0
    /\ trail = <<>>
    /\ yielded = <<>>
    /\ errored = FALSE
    /\ pcall = [op |-> "new", keyword |-> "", arg |-> {}, fresh |-> FALSE,
                tag |-> "", err |-> NoParserError, expr |-> NoExpr,
                tok |-> NoToken, flag |-> FALSE, decls |-> <<>>]

InitStream(texts) ==
    /\ input \in texts
    /\ stream = input
    /\ op = "new"
    /\ InitStreamRest

\* A reader over bytes: either it is still bare (op = "open", the reader
\* holds the bytes) or a TokenStream was made over it (op = "new", the
\* reader holds what read_char will return).
InitReader(texts) ==
    /\ input \in texts
    /\ op \in {"open", "new"}
    /\ stream = IF op = "open" THEN input ELSE ReadCharResults(input)
    /\ InitStreamRest

SetStream(s) ==
    /\ stream' = s.stream
    /\ stream_column' = s.stream_column
    /\ stream_line' = s.stream_line
    /\ lookahead_buf' = s.lookahead_buf
    /\ finished' = s.finished
    /\ cached_token' = s.cached_token
    /\ token_column' = s.token_column
    /\ token_line' = s.token_line

Trail(name) == IF Len(trail) < 4 THEN Append(trail, name) ELSE Append(Tail(trail), name)

\* A call of next_token on the stream, r being what it returned.
NextTokenCall(r) ==
    /\ SetStream(r.ts)
    /\ op' = "next_token"
    /\ result' = r.res
    /\ consumed' = IF r.res.tag = "None" THEN consumed ELSE consumed + 1
    /\ yielded' = IF r.res.tag = "Ok" THEN yielded \o r.res.tok.text ELSE yielded
    /\ trail' = Trail("next_token")
    /\ errored' = (errored \/ r.res.tag = "Err")
    /\ UNCHANGED <<input, functions, constants, variables, imports, mod_call, pcall>>

NextToken == NextTokenCall(next_token(Self))

\* A call of peek on the stream, r being what it returned.  A token stays to
\* be read; an error is used up.
PeekCall(r) ==
    /\ SetStream(r.ts)
    /\ op' = "peek"
    /\ result' = r.res
    /\ consumed' = IF r.res.tag = "Err" THEN consumed + 1 ELSE consumed
    /\ yielded' = yielded
    /\ trail' = Trail("peek")
    /\ errored' = (errored \/ r.res.tag = "Err")
    /\ UNCHANGED <<input, functions, constants, variables, imports, mod_call, pcall>>

Peek == PeekCall(peek(Self))

NextTokens == NextToken \/ Peek

NextModule ==
    \/ Define /\ UNCHANGED <<tsvars, obsvars, pcall>>
    \/ Redefine /\ UNCHANGED <<tsvars, obsvars, pcall>>
    \/ Import /\ UNCHANGED <<tsvars, obsvars, pcall>>

\* ---- the parser's inputs
ParserAlphabet == {"a", "1", ".", "(", ")", ",", "*", " ", "\n", "["}

SourceSamples ==
    { <<"f","(","1",","," ","g","(","2",")",","," ","3",")">>,
      <<"f"," ","(","1",","," ","2",")">>,
      <<"a"," ",".",".","b">>, <<"a","."," ","b","\n">>,
      <<"1","+","2","\n">>, <<"-","1","\n">>, <<"!","a","\n">>, <<"1","<","2">>,
      <<"f","u","n","c">>, <<"\n","\n","u","s","e">>, <<"c","o","n","s","t">>,
      <<"v","a","r"," ","{","\n","}">>, <<"\n","f","u","n","c"," ">>,
      <<"{","}">>, <<"{","\n","}">>,
      <<"{","x"," ","i","n","t"," ","="," ","1","\n","}">>,
      <<"{","x"," ","i","n","t"," ","="," ","1","\n","y"," ","T"," ","="," ","2","\n","}">>,
      <<"{","x"," ","i","n","t"," ","="," ","1","}">>,
      <<"u","s","e"," ","{"," ","a",".","b",".","c",","," ","x",".","y"," ","a","s"," ","z"," ","}">>,
      <<"u","s","e"," ","{"," ","a"," ",".","b"," ",","," ","x"," ","a","s"," ","z",","," ","y"," ","}">>,
      <<"u","s","e"," ","{"," ","x"," ","a","s"," ","z","\n","}">>,
      <<"u","s","e"," ","{"," ",".","a"," ","}">>,
      <<"u","s","e"," ","{"," ","a","."," ","}">>,
      <<"u","s","e"," ","{"," ","a"," ","."," ","}">>,
      <<"u","s","e"," ","{"," ",","," ","}">>,
      <<"u","s","e"," ","{","}">>,
      <<"u","s","e"," ","{","a"," ",","," ","a"," ","}">>,
      <<"u","s","e"," ","{","a"," ",","," ","b"," ",".","a"," ","}">>,
      <<"u","s","e"," ","{","a"," ","\n","b"," ","}">>,
      <<"c","o","n","s","t"," ","{","}">>,
      <<"c","o","n","s","t"," ","{","x"," ","i","n","t"," ","="," ","1","\n","}">>,
      <<"u","s","e"," ","{","}","\n","c","o","n","s","t"," ","{","}","\n","v","a","r"," ","{","}">>,
      <<"u","s","e"," ","{","}","\n","c","o","n","s","t"," ","{","}","\n","c","o","n","s","t"," ","{","}">>,
      <<"u","s","e"," ","{","}","\n","a">>,
      <<"a","(","1",")">>, <<"a"," ","(",")">>, <<"1","[","0","]">>, <<"1",".","a">>, <<"(","1",")">>,
      <<"v","a","r"," ","{","x"," ","i","n","t"," ","="," ","1","\n","}">>,
      <<"v","a","r"," ","{","}">>,
      <<"u","s","e"," ","{"," ","1","a"," ","}">>,
      <<"u","s","e"," ","{","a"," ","a","s"," ","1","a">>,
      <<"u","s","e"," ","{","}","\n","c","o","n","s","t"," ","{","x"," ","i","n","t"," ","="," ","1","a","\n","}">>,
      <<"a"," ",",","1","a">>, <<"(","1","a",")">> }

\* use blocks of one-letter imports: use {a , b }
RECURSIVE UseItems(_)
UseItems(q) ==
    IF Len(q) = 1 THEN <<q[1], " ">>
    ELSE <<q[1], " ", ",", " ">> \o UseItems(Tail(q))
UseBlock(q) == <<"u","s","e"," ","{">> \o UseItems(q) \o <<"}">>
AliasLists == {q \in Texts({"a", "b"}, MaxLen) : q # <<>>}
UseBlockTexts == {UseBlock(q) : q \in AliasLists}

\* use blocks that fail at one item: use {a , b , . , a , }
MaxItems == 2
BadItems == {<<".">>, <<"1", "a">>, <<"(">>}
RECURSIVE Items(_)
Items(q) == IF q = <<>> THEN <<>> ELSE <<q[1], " ", ",", " ">> \o Items(Tail(q))
FailingBlock(before, bad, after) ==
    <<"u","s","e"," ","{">> \o Items(before) \o bad \o <<" ", ",", " ">>
        \o Items(after) \o <<"}">>
FailingBlocks ==
    { [before |-> q1, bad |-> b, after |-> q2, text |-> FailingBlock(q1, b, q2)] :
        q1 \in Texts({"a", "b"}, MaxItems), b \in BadItems,
        q2 \in Texts({"a", "b"}, MaxItems) }
FailingBlockTexts == {f.text : f \in FailingBlocks}

\* An operator that can start an expression, followed by a literal or an
\* identifier.
UnaryOperatorTexts == {<<"!">>, <<"+", "+">>, <<"-", "-">>, <<"+">>, <<"-">>}
OperandTexts == {<<"1">>, <<"a">>}
UnaryTexts == {o \o e : o \in UnaryOperatorTexts, e \in OperandTexts}

\* ---- the parser's state machine
Dead == {"Panic", "Diverges"}
NoParserCall == [op |-> "new", keyword |-> "", arg |-> {}, fresh |-> FALSE,
                 tag |-> "", err |-> NoParserError, expr |-> NoExpr,
                 tok |-> NoToken, flag |-> FALSE, decls |-> <<>>]

\* A call of a parser function on the stream, p being what it returned.
\* fresh: the call was made on the stream as TokenStream::new left it.
ParserCall(name, keyword, arg, p) ==
    /\ SetStream(p.ts)
    /\ pcall' = [op |-> name, keyword |-> keyword, arg |-> arg,
                 fresh |-> (Self = NewStream(input)),
                 tag |-> p.tag, err |-> p.err, expr |-> p.expr, tok |-> p.tok,
                 flag |-> p.flag, decls |-> p.decls]
    /\ UNCHANGED <<functions, constants, variables, imports, mod_call,
                   input, op, result, consumed, trail, yielded, errored>>

\* A call of a Parser method that makes its own stream, x being what it returned.
\* fresh: the call was made on the Parser as Parser::new left it.
MethodCall(name, x) ==
    /\ SetStream(x.ts)
    /\ SetModule(x.m)
    /\ pcall' = [NoParserCall EXCEPT !.op = name, !.tag = x.tag, !.err = x.err,
                                     !.fresh = (pcall.op # name)]
    /\ UNCHANGED <<mod_call, input, op, result, consumed, trail, yielded, errored>>

Terminators == {newline, either(close_paren, comma)}

ParseExpression ==
    /\ pcall.tag \notin Dead
    /\ \E terminator \in Terminators :
            ParserCall("parse", "", terminator.kinds, parse(Self, terminator))

\* the three calls of scan_for_keyword: the use, the const and the var block
ScanSites ==
    { [keyword |-> "KeywordUse",
       allowed |-> {"KeywordFunc", "KeywordTest", "KeywordStruct", "KeywordConst", "KeywordVar"}],
      [keyword |-> "KeywordConst",
       allowed |-> {"KeywordFunc", "KeywordTest", "KeywordStruct", "KeywordVar"}],
      [keyword |-> "KeywordConst",
       allowed |-> {"KeywordFunc", "KeywordTest", "KeywordStruct"}] }

ScanForKeyword ==
    /\ pcall.tag \notin Dead
    /\ \E site \in ScanSites :
            ParserCall("scan_for_keyword", site.keyword, site.allowed,
                       scan_for_keyword(Self, site.keyword, site.allowed))

ParseDeclarationBlock ==
    /\ pcall.tag \notin Dead
    /\ ParserCall("parse_declaration_block", "", {}, parse_declaration_block(Self))

AddSource ==
    /\ pcall.tag \notin Dead
    /\ MethodCall("add_source", add_source(ModuleRec, input))

NextParser == ParseExpression \/ ScanForKeyword \/ ParseDeclarationBlock \/ AddSource

\* ---- the inputs of term_delimiter_for: two tokens, a blank between them
PrecedenceOperators ==
    {e.text : e \in {x \in OperatorTable :
                        x.value.kind \in {"UnaryOperator", "BinaryOperator", "Comparison"}}}
NonOperatorTexts ==
    { <<"a">>, <<"1">>, <<"t","r","u","e">>, <<"\"","a","\"">>, <<"'","a","'">>,
      <<"(">>, <<")">>, <<"{">>, <<",">>, <<".">>, <<"\n">>, <<"i","f">>,
      <<"f","u","n","c">> }
TokenPairTexts ==
    {t \o <<" ">> \o u : t \in PrecedenceOperators,
                         u \in PrecedenceOperators \cup NonOperatorTexts}

\* The token `result` that next_token returned is the operator t1; the next
\* token is peeked and the delimiter made for t1 is applied to it.
TermDelimiterForCall(r) ==
    /\ r.res.tag = "Ok"
    /\ SetStream(r.ts)
    /\ op' = "peek"
    /\ result' = r.res
    /\ trail' = Trail("peek")
    /\ pcall' = [NoParserCall EXCEPT !.op = "term_delimiter_for", !.tok = result.tok,
                                     !.flag = term_delimiter_for(result.tok, r.res.tok)]
    /\ UNCHANGED <<functions, constants, variables, imports, mod_call,
                   input, consumed, yielded, errored>>

TermDelimiterFor ==
    /\ op = "next_token"
    /\ result.tag = "Ok"
    /\ TermDelimiterForCall(peek(Self))

NextPrecedence == NextToken \/ TermDelimiterFor

\* ---- the inputs of read_char: the UTF-8 encodings of scalar values, and bytes
\* The scalar values U+0061, U+00E9, U+0800, U+20AC, U+D7FF, U+10000, U+1F600
\* and U+10FFFF: every length of encoding, and the least and greatest second
\* bytes after the lead bytes E0, ED, F0 and F4.
Scalars == {97, 233, 2048, 8364, 55295, 65536, 128512, 1114111}
AsciiCodes == [a |-> 97]

\* The name of the byte of value v ("?" for a byte the model does not name).
ByteOf(v) ==
    IF v < 128
    THEN (IF \E c \in DOMAIN AsciiCodes : AsciiCodes[c] = v
          THEN CHOOSE c \in DOMAIN AsciiCodes : AsciiCodes[c] = v ELSE "?")
    ELSE (IF \E b \in DOMAIN HighBytes : HighBytes[b] = v
          THEN CHOOSE b \in DOMAIN HighBytes : HighBytes[b] = v ELSE "?")

\* The UTF-8 encoding of the scalar value n (RFC 3629, section 3).
Utf8Encoding(n) ==
    IF n < 128 THEN <<ByteOf(n)>>
    ELSE IF n < 2048 THEN <<ByteOf(192 + (n \div 64)), ByteOf(128 + (n % 64))>>
    ELSE IF n < 65536
    THEN <<ByteOf(224 + (n \div 4096)), ByteOf(128 + ((n \div 64) % 64)),
           ByteOf(128 + (n % 64))>>
    ELSE <<ByteOf(240 + (n \div 262144)), ByteOf(128 + ((n \div 4096) % 64)),
           ByteOf(128 + ((n \div 64) % 64)), ByteOf(128 + (n % 64))>>

RECURSIVE Utf8(_)
Utf8(q) == IF q = <<>> THEN <<>> ELSE Utf8Encoding(Head(q)) \o Utf8(Tail(q))

Utf8Texts == {Utf8(q) : q \in Texts(Scalars, MaxLen)}

\* Bytes in any order, and texts that are cut short, overlong, a surrogate,
\* above U+10FFFF, or that go on after an invalid sequence.
ByteAlphabet == {"a", "xC3", "xA9", "xE2", "xFF"}
ByteSamples ==
    { <<"xF0", "x9F", "x98">>, <<"xC0", "x80">>, <<"xE0", "x80", "x80">>,
      <<"xED", "xA0", "x80">>, <<"xF4", "x90", "x80", "x80">>,
      <<"xFF", "a", "a", "a", "a">>, <<"xC3", "a", "a", "a", "a">>,
      <<"xA9", "xA9", "xA9", "xA9", "xC3", "xA9">> }

\* A call of read_char on the bare reader.  The character it returns is
\* appended to `yielded`; the kind of an error result is the io::ErrorKind.
ReadCharCall(rd) ==
    /\ stream' = rd.rest
    /\ op' = "read_char"
    /\ result' = IF rd.tag = "Err" THEN ErrRes([NoError EXCEPT !.kind = rd.io])
                 ELSE IF rd.tag = "Ok" THEN OkRes(NoToken) ELSE NoneRes
    /\ consumed' = IF rd.tag = "None" THEN consumed ELSE consumed + 1
    /\ yielded' = IF rd.tag = "Ok" THEN Append(yielded, rd.c) ELSE yielded
    /\ trail' = Trail("read_char")
    /\ errored' = (errored \/ rd.tag = "Err")
    /\ UNCHANGED <<functions, constants, variables, imports, mod_call, pcall, input,
                   stream_column, stream_line, lookahead_buf, finished, cached_token,
                   token_column, token_line>>

ReadChar ==
    /\ op \in {"open", "read_char"}
    /\ ReadCharCall(fn_read_char(stream))

\* next_token on the TokenStream made over the reader
NextTokenOfReader ==
    /\ op \in {"new", "next_token"}
    /\ NextToken

NextReadChar == ReadChar \/ NextTokenOfReader

\* ---- the texts of string and char literals
LiteralAlphabet == {"\"", "'", "\\", "a", "n", "\n"}
EscapeChars == {"r", "n", "t", "\\", "'", "\"", "a", "0", "\n"}
EscapeTexts ==
    {<<"\"", "\\", c, "\"">> : c \in EscapeChars}
        \cup {<<"'", "\\", c, "'">> : c \in EscapeChars}
LiteralSamples ==
    { <<"\"","a","\\","t","b","\"">>, <<"\"","a","\n","b","\"">>,
      <<"\"","a","\\","\n","b","\"">>, <<"\"","a","\\","\"","b">>,
      <<"'","a","b","'">>, <<"'","\\","t","a","'">>, <<"'","\\","t">>,
      <<"'","a","'","'","a","'">>, <<"\"","\"","\"","a","\"">> }

InitModule == InitModuleVars /\ InitStream({<<>>})
InitTokens == InitModuleVars /\ InitStream(Texts(Alphabet, MaxLen) \cup SampleTexts)
InitOperators == InitModuleVars /\ InitStream(Texts(OperatorAlphabet, MaxLen))
InitPrecedence == InitModuleVars /\ InitStream(TokenPairTexts)
InitReadChar ==
    InitModuleVars
        /\ InitReader(Utf8Texts \cup Texts(ByteAlphabet, MaxLen) \cup ByteSamples)
InitLiterals ==
    InitModuleVars
        /\ InitStream(Texts(LiteralAlphabet, MaxLen) \cup EscapeTexts \cup LiteralSamples)
InitParser ==
    InitModuleVars
        /\ InitStream(Texts(ParserAlphabet, MaxLen) \cup SourceSamples \cup UseBlockTexts
                        \cup FailingBlockTexts \cup UnaryTexts)

\* The symbol table under any sequence of define, redefine and import calls.
SpecModule == InitModule /\ [][NextModule]_vars
\* A token stream over every short text and the sample texts, under any
\* sequence of next_token and peek calls.
SpecTokens == InitTokens /\ [][NextTokens]_vars
\* The same over every short text of operator characters.
SpecOperators == InitOperators /\ [][NextTokens]_vars
\* A parser over every short text and the sample sources, under any sequence
\* of calls of the expression parser, the block helpers and add_source.
SpecParser == InitParser /\ [][NextParser]_vars
\* A token stream over every pair of an operator and a token, the delimiter
\* of the operator applied to the token that follows it.
SpecPrecedence == InitPrecedence /\ [][NextPrecedence]_vars
\* A token stream over every short text of quotes, backslashes, letters and
\* newlines, every escape in a string and in a char literal, and samples.
SpecLiterals == InitLiterals /\ [][NextTokens]_vars
\* A reader over the encodings of scalar values and over bytes in any order,
\* under any sequence of read_char calls on the bare reader, or of next_token
\* calls on a TokenStream made over it.
SpecReadChar == InitReadChar /\ [][NextReadChar]_vars

\* ==================================================================
\* Properties
\* ==================================================================
\* ---- helpers of the properties
StoresOf(id) ==
    {n \in {"functions", "constants", "variables", "imports"} :
        id \in DOMAIN ModuleRec[n]}
AllKeys == DOMAIN functions \cup DOMAIN constants \cup DOMAIN variables \cup DOMAIN imports

\* The text still to be tokenized: the pushed-back characters, then the reader's.
Unread == lookahead_buf \o stream
\* The text of the token peek holds back.
Pending == IF cached_token.some THEN cached_token.tok.text ELSE <<>>

IsPrefix(p, t) == Len(p) <= Len(t) /\ SubSeq(t, 1, Len(p)) = p
IsBlank(c) == is_whitespace(c) /\ c # "\n"
NotBlank(c) == ~IsBlank(c)
Significant(t) == SelectSeq(t, NotBlank)
IsNewline(c) == c = "\n"
Newlines(t) == Len(SelectSeq(t, IsNewline))
RECURSIVE SkipBlanks(_)
SkipBlanks(t) == IF t # <<>> /\ IsBlank(Head(t)) THEN SkipBlanks(Tail(t)) ELSE t
PlainText(t) == \A i \in 1..Len(t) : t[i] \notin {"\"", "'", "\\", BadSeq}

\* The results of calling next_token alone, again and again, on a fresh
\* stream over the text, up to the end marker.
RECURSIVE Drain(_)
Drain(r) == IF r.res.tag = "None" THEN <<>> ELSE <<r.res>> \o Drain(next_token(r.ts))
Reference(text) == Drain(next_token(NewStream(text)))
Expected(ref, k) == IF k >= 1 /\ k <= Len(ref) THEN ref[k] ELSE NoneRes

\* ---- C1
\* C1: after any sequence of define, redefine and import calls no identifier
\* is a key of more than one of the module's stores.
C1_OneFlatNamespace == \A id \in AllKeys : Cardinality(StoresOf(id)) <= 1

\* ---- C2
\* C2: a define (or an import, by its local alias) under a name that already
\* is a key of some store returns an error and leaves every store unchanged,
\* whatever the kinds of the stored and of the new symbol.
C2_DefineFailsOnCollision ==
    [][(mod_call'.op \in {"define", "import"} /\ mod_call'.ident \in AllKeys)
        => (~mod_call'.ok /\ UNCHANGED <<functions, constants, variables, imports>>)]_vars

\* A define of a Function fails on a name that an import holds.
C2_Witness ==
    /\ mod_call.op = "define"
    /\ mod_call.kind = "Function"
    /\ ~mod_call.ok
    /\ StoresOf(mod_call.ident) = {"imports"}

\* ---- C3
\* What the last call must have returned, given how many results were used up.
AgreesWithReference(ref) ==
    /\ (op = "next_token" /\ result.tag # "None") => result = Expected(ref, consumed)
    /\ (op = "peek" /\ result.tag = "Ok") => result = Expected(ref, consumed + 1)
    /\ (op = "peek" /\ result.tag = "Err") => result = Expected(ref, consumed)
    /\ (op # "new" /\ result.tag = "None") => consumed = Len(ref)

\* C3: peek is idempotent and non-consuming: the call after a peek that
\* returned a token (a peek or a next_token) returns that same token, and
\* every call returns what next_token calls alone would have returned at that
\* point of the input, so the next_token after that returns the following token.
C3_PeekIdempotent ==
    /\ [][(op = "peek" /\ result.tag = "Ok") => result' = result]_vars
    /\ []AgreesWithReference(Reference(input))

\* Two peeks and a next_token returned the first token, the next next_token the second.
C3_Witness ==
    /\ trail = <<"peek", "peek", "next_token", "next_token">>
    /\ consumed = 2
    /\ result.tag = "Ok"
    /\ Len(Reference(input)) >= 2
    /\ Reference(input)[1].tag = "Ok"
    /\ result # Reference(input)[1]

\* ---- C4
\* C4: no source character is silently dropped: as long as no error was
\* returned, the texts of the tokens handed out, the token peek holds back and
\* the text still unread make up the input (blanks aside), so the character
\* that ends an identifier is still to be tokenized.
C4_NoCharacterDropped ==
    (PlainText(input) /\ ~errored)
        => Significant(yielded \o Pending \o Unread) = Significant(input)

\* ---- C5
\* The longest operator of the table that is a prefix of the text.
LongestOperator(text) ==
    CHOOSE o \in OperatorTexts :
        /\ IsPrefix(o, text)
        /\ \A q \in OperatorTexts : IsPrefix(q, text) => Len(q) <= Len(o)

\* C5: a call that reads text beginning with an operator character returns
\* the longest operator of the table that is a prefix of that text, and
\* everything after that operator is still to be tokenized.
C5_LongestOperator ==
    [][(~cached_token.some /\ Unread # <<>> /\ is_operator(Head(Unread))
        /\ Unread' # Unread)
        => /\ result'.tag = "Ok"
           /\ result'.tok.text = LongestOperator(Unread)
           /\ result'.tok.value.kind \in
                 {"BinaryOperator", "Comparison", "Assignment", "UnaryOperator"}
           /\ Unread' = SubSeq(Unread, Len(LongestOperator(Unread)) + 1, Len(Unread))]_vars

\* `<` was read as a lone LessThan and the `a` after it is still to be read.
C5_Witness ==
    /\ op = "next_token"
    /\ result.tag = "Ok"
    /\ result.tok.value = OpValue("Comparison", "LessThan")
    /\ lookahead_buf = <<"a">>
    /\ input = <<"<", "a">>

\* ---- C6
\* C6: the stream line is 1 plus the number of newline characters read from
\* the input so far, and the column is 1 right after a newline is consumed.
C6_LineCountsNewlines ==
    /\ stream_line = 1 + Newlines(input) - Newlines(stream)
    /\ (op = "next_token" /\ result.tag = "Ok" /\ result.tok.value.kind = "Newline")
            => stream_column = 1

\* ---- C7
\* The 1-based line and column of the i-th character of the input.
LineOf(i) == 1 + Newlines(SubSeq(input, 1, i - 1))
ColumnOf(i) ==
    LET before == {j \in 1..(i - 1) : input[j] = "\n"} IN
    IF before = {} THEN i ELSE i - (CHOOSE j \in before : \A k \in before : k <= j)
\* Where in the input the next token starts: after the blanks of the unread text.
TokenStart == Len(input) - Len(SkipBlanks(Unread)) + 1

\* C7: every token read from the text carries the line and the column of its
\* first character in the source text.
C7_TokenCarriesPosition ==
    [][(~cached_token.some /\ Unread' # Unread /\ result'.tag = "Ok")
        => /\ result'.tok.line = LineOf(TokenStart)
           /\ result'.tok.column = ColumnOf(TokenStart)]_vars

\* ---- C8
BaseOf(c) == CASE c = "x" -> 16 [] c = "b" -> 2 [] c = "o" -> 8 [] OTHER -> 10
IsBasePrefixed(t) ==
    /\ Len(t) >= 3
    /\ t[1] = "0"
    /\ t[2] \in {"x", "b", "o"}
    /\ \A i \in 3..Len(t) : is_numeric(t[i], BaseOf(t[2]))

\* C8: a base prefix 0x, 0b or 0o followed by digits of that base is one
\* IntegerLiteral whose value is the digits read in that base.
C8_BasePrefixedLiteral ==
    (IsBasePrefixed(input) /\ Len(trail) = 1)
        => /\ result.tag = "Ok"
           /\ result.tok.value.kind = "IntegerLiteral"
           /\ result.tok.value.num = DigitsValue(SubSeq(input, 3, Len(input)), BaseOf(input[2]))
           /\ Unread = <<>>

\* ---- C9
IsDecimalFloat(t) ==
    \E d \in 2..(Len(t) - 1) :
        /\ t[d] = "."
        /\ \A i \in (1..Len(t)) \ {d} : t[i] \in DecimalDigits
HasSecondDot(t) ==
    /\ t # <<>>
    /\ t[1] \in DecimalDigits
    /\ \A i \in 1..Len(t) : t[i] \in DecimalDigits \cup {"."}
    /\ Cardinality({i \in 1..Len(t) : t[i] = "."}) >= 2

\* C9: digits, one dot and digits are exactly one FloatingPointLiteral, and a
\* literal with a second dot makes the first call return an error.
C9_FloatIsOneToken ==
    /\ (IsDecimalFloat(input) /\ Len(trail) = 1)
            => /\ result.tag = "Ok"
               /\ result.tok.value.kind = "FloatingPointLiteral"
               /\ result.tok.text = input
               /\ Unread = <<>>
    /\ (HasSecondDot(input) /\ Len(trail) = 1) => result.tag = "Err"

\* ---- C10
\* C10: once a call has returned an error, no later call returns a token.
C10_ErrorsAreTerminal == ~(errored /\ result.tag = "Ok")

\* ---- C11
\* C11: whenever is_empty returns true the whole input has been read and no
\* token is held back by peek, and the next peek or next_token returns the
\* end marker.
C11_IsEmptyMeansEnd ==
    /\ [][is_empty(Self) => result'.tag = "None"]_vars
    /\ [](is_empty(Self) => (Unread = <<>> /\ ~cached_token.some))

\* The only token of `a` was read up to the end of the input, so is_empty
\* held, and the peek after it returned the end marker.
C11_Witness ==
    /\ input = <<"a">>
    /\ trail = <<"next_token", "peek">>
    /\ is_empty(Self)
    /\ result.tag = "None"

\* ---- helpers of the parser properties
\* The last call was call `name` made on the untouched stream (or Parser).
FreshCall(name) == pcall.op = name /\ pcall.fresh
WithNewline == pcall.arg = {"Newline"}
IsLiteral(e, n) == e.kind = "Literal" /\ e.lit = NumValue("IntegerLiteral", n)
IsCall(e, callee, nargs) ==
    /\ e.kind = "FunctionCall"
    /\ Len(e.function) = 1
    /\ e.function[1].kind = "Identifier"
    /\ e.function[1].name = callee
    /\ e.function[1].namespace = <<>>
    /\ Len(e.args) = nargs

\* ---- C12
NestedCallText == <<"f","(","1",","," ","g","(","2",")",","," ","3",")">>
SimpleCallText == <<"a","(","1",")">>

\* C12: an identifier immediately followed by a parenthesised, comma-separated
\* argument list parses to a FunctionCall of that identifier with the parsed
\* arguments in source order, nested calls nested: f(1, g(2), 3) is
\* FunctionCall(f, [1, FunctionCall(g, [2]), 3]) and a(1) is FunctionCall(a, [1]).
C12_CallParsesToFunctionCall ==
    /\ (FreshCall("parse") /\ WithNewline /\ input = SimpleCallText)
            => /\ pcall.tag = "Ok"
               /\ IsCall(pcall.expr, <<"a">>, 1)
               /\ IsLiteral(pcall.expr.args[1], 1)
    /\ (FreshCall("parse") /\ WithNewline /\ input = NestedCallText)
            => /\ pcall.tag = "Ok"
               /\ IsCall(pcall.expr, <<"f">>, 3)
               /\ IsLiteral(pcall.expr.args[1], 1)
               /\ IsCall(pcall.expr.args[2], <<"g">>, 1)
               /\ IsLiteral(pcall.expr.args[2].args[1], 2)
               /\ IsLiteral(pcall.expr.args[3], 3)

\* ---- C13
\* The tokens of the text: an identifier directly after an identifier, or a
\* dot directly after a dot that follows an identifier.
KindAt(ref, i) == IF i <= Len(ref) /\ ref[i].tag = "Ok" THEN ref[i].tok.value.kind ELSE ""
IdentifierThenIdentifier(ref) ==
    KindAt(ref, 1) = "Identifier" /\ KindAt(ref, 2) = "Identifier"
DotThenDot(ref) ==
    KindAt(ref, 1) = "Identifier" /\ KindAt(ref, 2) = "Dot" /\ KindAt(ref, 3) = "Dot"

\* C13: parse returns on every input, and an identifier directly after an
\* identifier, or a dot directly after a dot in an identifier path, makes it
\* return an UnexpectedToken error.
C13_ParseTerminates ==
    /\ pcall.op = "parse" => pcall.tag # "Diverges"
    /\ (FreshCall("parse")
            /\ (IdentifierThenIdentifier(Reference(input)) \/ DotThenDot(Reference(input))))
            => (pcall.tag = "Err" /\ pcall.err.kind = "UnexpectedToken")

\* ---- C14
\* A primary expression (an integer literal) followed by a binary operator,
\* a dot or an opening bracket.
OperatorAfterPrimary(ref) ==
    /\ KindAt(ref, 1) = "IntegerLiteral"
    /\ KindAt(ref, 2) \in {"BinaryOperator", "Dot", "OpenBracket"}

\* C14: a binary operator, a dot or an opening bracket after a complete
\* primary expression makes parse return an error with a message; it does
\* not panic and returns no expression.
C14_TrailerFailsFast ==
    (FreshCall("parse") /\ OperatorAfterPrimary(Reference(input)))
        => (pcall.tag = "Err" /\ pcall.err.kind = "UnexpectedToken"
            /\ pcall.err.message # "")

\* ---- C15
RECURSIVE SkipNewlineTokens(_)
SkipNewlineTokens(ref) ==
    IF ref # <<>> /\ KindAt(ref, 1) = "Newline" THEN SkipNewlineTokens(Tail(ref)) ELSE ref

\* What scan_for_keyword is to return and leave behind, rest being the tokens
\* of the input after its leading newlines.
ScanAsSpecified(rest) ==
    IF rest = <<>> THEN pcall.tag = "Ok" /\ ~pcall.flag
    ELSE IF rest[1].tag = "Err" THEN pcall.tag = "Err"
    ELSE IF rest[1].tok.value.kind = pcall.keyword
    THEN /\ pcall.tag = "Ok" /\ pcall.flag
         /\ next_token(Self).res = Expected(rest, 2)
    ELSE IF rest[1].tok.value.kind \in pcall.arg
    THEN /\ pcall.tag = "Ok" /\ ~pcall.flag
         /\ next_token(Self).res = rest[1]
    ELSE pcall.tag = "Err" /\ pcall.err.kind = "UnexpectedToken"

\* C15: scan_for_keyword skips leading newlines; then the expected keyword is
\* consumed and true returned; a token of the allow-list gives false, no
\* error, and stays to be read; the end of input gives false; any other
\* token is an UnexpectedToken error.
C15_ScanForKeyword ==
    FreshCall("scan_for_keyword") => ScanAsSpecified(SkipNewlineTokens(Reference(input)))

\* ---- C16
OneDeclarationText == <<"{","x"," ","i","n","t"," ","="," ","1","\n","}">>
TwoDeclarationsText ==
    <<"{","x"," ","i","n","t"," ","="," ","1","\n","y"," ","T"," ","="," ","2","\n","}">>
IsDeclaration(d, name, type, n) ==
    /\ d.identifier = name
    /\ d.ttype.name = type
    /\ IsLiteral(d.value, n)
    /\ d.first_token.text = name

\* C16: parse_declaration_block on `{`, n declarations (identifier, type,
\* `=`, expression, newline) and `}` returns the n declarations in source
\* order and has consumed the closing brace.
C16_DeclarationBlock ==
    /\ (FreshCall("parse_declaration_block") /\ input = <<"{", "}">>)
            => (pcall.tag = "Ok" /\ pcall.decls = <<>> /\ Unread = <<>> /\ ~cached_token.some)
    /\ (FreshCall("parse_declaration_block") /\ input = OneDeclarationText)
            => /\ pcall.tag = "Ok"
               /\ Len(pcall.decls) = 1
               /\ IsDeclaration(pcall.decls[1], <<"x">>, <<"i","n","t">>, 1)
               /\ Unread = <<>> /\ ~cached_token.some
    /\ (FreshCall("parse_declaration_block") /\ input = TwoDeclarationsText)
            => /\ pcall.tag = "Ok"
               /\ Len(pcall.decls) = 2
               /\ IsDeclaration(pcall.decls[1], <<"x">>, <<"i","n","t">>, 1)
               /\ IsDeclaration(pcall.decls[2], <<"y">>, <<"T">>, 2)
               /\ Unread = <<>> /\ ~cached_token.some

\* ---- C17
TwoImportsText ==
    <<"u","s","e"," ","{"," ","a",".","b",".","c",","," ","x",".","y"," ","a","s"," ","z"," ","}">>
AliasThenMoreText ==
    <<"u","s","e"," ","{"," ","a"," ",".","b"," ",","," ","x"," ","a","s"," ","z",","," ","y"," ","}">>
ImportedAs(alias, path) == alias \in DOMAIN imports /\ imports[alias].ident = path

\* C17: each path of a use block installs one import under its `as` alias,
\* else under its last segment, and an aliased import may be followed by a
\* comma and more imports: use { a.b.c, x.y as z } installs exactly c and z.
C17_UseBlockInstallsImports ==
    /\ (FreshCall("add_source") /\ input = TwoImportsText)
            => /\ pcall.tag = "Ok"
               /\ DOMAIN imports = {<<"c">>, <<"z">>}
               /\ ImportedAs(<<"c">>, <<"a",".","b",".","c">>)
               /\ ImportedAs(<<"z">>, <<"x",".","y">>)
    /\ (FreshCall("add_source") /\ input = AliasThenMoreText)
            => /\ pcall.tag = "Ok"
               /\ DOMAIN imports = {<<"b">>, <<"z">>, <<"y">>}

\* ---- C18
InvalidImportTexts ==
    { <<"u","s","e"," ","{"," ",".","a"," ","}">>,
      <<"u","s","e"," ","{"," ","a","."," ","}">>,
      <<"u","s","e"," ","{"," ","a"," ","."," ","}">>,
      <<"u","s","e"," ","{"," ",","," ","}">> }

\* C18: a path of a use block that begins or ends with a dot, or is empty,
\* makes add_source fail with InvalidImport and installs nothing:
\* use { .a } and use { a. } both fail.
C18_InvalidImport ==
    (FreshCall("add_source") /\ input \in InvalidImportTexts)
        => (pcall.tag = "Err" /\ pcall.err.kind = "InvalidImport"
            /\ DOMAIN imports = {})

\* ---- C19
AliasesOf(text) == CHOOSE q \in AliasLists : UseBlock(q) = text
\* The first alias of the list that a held name or an earlier alias of the
\* list already takes; 0 when there is none.
Collides(q, held, i) == q[i] \in held \cup {q[j] : j \in 1..(i - 1)}
FirstCollision(q, held) ==
    IF \E i \in 1..Len(q) : Collides(q, held, i)
    THEN CHOOSE i \in 1..Len(q) :
            Collides(q, held, i) /\ \A j \in 1..(i - 1) : ~Collides(q, held, j)
    ELSE 0
Before(q, i) == {q[j] : j \in 1..(i - 1)}

\* C19: an import whose local alias already resolves in the module is not
\* installed: add_source returns SymbolRedefined for that alias, the symbols
\* held before are unchanged and only the imports before it were installed.
C19_ImportCollision ==
    /\ [][(pcall'.op = "add_source" /\ input \in UseBlockTexts
                /\ FirstCollision(AliasesOf(input), AllKeys) > 0)
            => /\ pcall'.tag = "Err"
               /\ pcall'.err.kind = "SymbolRedefined"
               /\ pcall'.err.text =
                     AliasesOf(input)[FirstCollision(AliasesOf(input), AllKeys)]
               /\ DOMAIN imports' = DOMAIN imports
                     \cup Before(AliasesOf(input), FirstCollision(AliasesOf(input), AllKeys))
               /\ UNCHANGED <<functions, constants, variables>>]_vars
    /\ [][pcall'.op = "add_source"
            => /\ \A k \in DOMAIN imports : k \in DOMAIN imports' /\ imports'[k] = imports[k]
               /\ (pcall'.tag = "Err" /\ pcall'.err.kind = "SymbolRedefined")
                    => pcall'.err.text \in DOMAIN imports']_vars

\* use {a , b , a }: a and b were installed, the second a was refused.
C19_Witness ==
    /\ FreshCall("add_source")
    /\ input = UseBlock(<<"a", "b", "a">>)
    /\ pcall.tag = "Err"
    /\ pcall.err.kind = "SymbolRedefined"
    /\ pcall.err.text = <<"a">>
    /\ DOMAIN imports = {<<"a">>, <<"b">>}

\* ---- C20
VarBlockText == <<"v","a","r"," ","{","x"," ","i","n","t"," ","="," ","1","\n","}">>
ConstBlockText == <<"c","o","n","s","t"," ","{","x"," ","i","n","t"," ","="," ","1","\n","}">>
AllBlocksText ==
    <<"u","s","e"," ","{","}","\n","c","o","n","s","t"," ","{","}","\n","v","a","r"," ","{","}">>

\* C20: add_source runs the use, the const and the var phase in that order:
\* a var block is recognised by its `var` keyword and its declarations are
\* installed as Variable symbols, those of a const block as Constant symbols.
C20_PhasesInOrder ==
    /\ (FreshCall("add_source") /\ input = VarBlockText)
            => (pcall.tag = "Ok" /\ DOMAIN variables = {<<"x">>} /\ DOMAIN constants = {})
    /\ (FreshCall("add_source") /\ input = ConstBlockText)
            => (pcall.tag = "Ok" /\ DOMAIN constants = {<<"x">>} /\ DOMAIN variables = {})
    /\ (FreshCall("add_source") /\ input \in {AllBlocksText, <<"v","a","r"," ","{","}">>})
            => (pcall.tag = "Ok" /\ AllKeys = {})

\* ---- C21
\* C21: add_source returns Ok or a structured Error on every input and never
\* panics (nor fails to return): what is left of the stream after the
\* optional blocks is parsed or rejected with an error.
C21_AddSourceNeverPanics ==
    pcall.op = "add_source" => pcall.tag \in {"Ok", "Err"}

\* ---- C22
StoreOfKind(kind) ==
    CASE kind = "Function" -> "functions"
      [] kind = "Variable" -> "variables"
      [] kind = "Constant" -> "constants"
      [] OTHER -> "imports"

\* C22: redefine returns the symbol the name resolved to just before the
\* call, whichever store held it (nothing if it was undefined); afterwards
\* that entry is gone and lookup of the name gives the new symbol.
C22_RedefineReplaces ==
    mod_call.op = "redefine"
        => /\ mod_call.prev = mod_call.held
           /\ StoresOf(mod_call.ident) = {StoreOfKind(mod_call.kind)}
           /\ lookup(ModuleRec, mod_call.ident)
                    = SomeSymbol(mod_call.kind, mod_call.payload)

\* ---- C23
\* The delimiter of the operator pcall.tok has just been applied to the
\* token `result` that follows it.
DelimiterApplied == pcall.op = "term_delimiter_for" /\ op = "peek" /\ result.tag = "Ok"
IsOperatorToken(t) == t.value.kind \in {"UnaryOperator", "BinaryOperator", "Comparison"}

\* The precedence classes of the language, the highest first.
PrecedenceOrder ==
    << "unary", "multiplicative", "additive", "shift", "relational", "bit-and",
       "bit-xor", "bit-or", "logical-and", "logical-or" >>
PrecedenceClass(t) ==
    CASE t.value.kind = "UnaryOperator" -> "unary"
      [] t.value.kind = "Comparison" -> "relational"
      [] t.value.op \in {"Multiply", "Divide", "Modulo"} -> "multiplicative"
      [] t.value.op \in {"Add", "Subtract"} -> "additive"
      [] t.value.op \in {"ShiftLeft", "ShiftRight"} -> "shift"
      [] t.value.op = "BinaryAnd" -> "bit-and"
      [] t.value.op = "Xor" -> "bit-xor"
      [] t.value.op = "BinaryOr" -> "bit-or"
      [] t.value.op = "LogicalAnd" -> "logical-and"
      [] t.value.op = "LogicalOr" -> "logical-or"
PlaceOf(t) == CHOOSE i \in DOMAIN PrecedenceOrder : PrecedenceOrder[i] = PrecedenceClass(t)
HigherPrecedence(u, t) == PlaceOf(u) < PlaceOf(t)

\* C23: for operator tokens T and U, term_delimiter_for(T)(U) is true exactly
\* when U has strictly higher precedence than T in the order unary >
\* multiplicative > additive > shift > relational > bit-and > bit-xor > bit-or
\* > logical-and > logical-or, comparison tokens being relational; it is
\* false for equal precedence.
C23_DelimiterIsHigherPrecedence ==
    (DelimiterApplied /\ IsOperatorToken(pcall.tok) /\ IsOperatorToken(result.tok))
        => (pcall.flag <=> HigherPrecedence(result.tok, pcall.tok))

\* ---- C24
\* C24: for every operator token T and every token X that is no operator (an
\* identifier, a literal, punctuation, a newline, a keyword),
\* term_delimiter_for(T)(X) is true.
C24_NonOperatorTerminates ==
    (DelimiterApplied /\ IsOperatorToken(pcall.tok) /\ ~IsOperatorToken(result.tok))
        => pcall.flag

\* ---- C25
\* The character of the scalar value n, as read_char returns it.
CharOf(n) == IF n < 128 THEN ByteOf(n) ELSE Scalar(n)
\* The scalar value of a character of the inputs (-1 for any other).
ScalarOf(c) ==
    IF \E n \in Scalars : CharOf(n) = c THEN CHOOSE n \in Scalars : CharOf(n) = c ELSE -1
ScalarsOf(chars) == [i \in 1..Len(chars) |-> ScalarOf(chars[i])]
\* The reader is bare and read_char has been called on it.
OnlyReadChar == op = "read_char"

\* C25: on the concatenated UTF-8 encodings of a sequence of scalar values,
\* repeated read_char calls return those scalar values one per call and in
\* order, each call consuming the bytes of exactly one encoding, and return
\* the end marker after the last one: the encodings of the characters
\* returned so far, followed by the bytes still unread, are the input; no
\* call fails; and the end marker comes when, and only when, nothing is left.
C25_ReadCharDecodesUtf8 ==
    /\ [](OnlyReadChar /\ input \in Utf8Texts
            => /\ result.tag \in {"Ok", "None"}
               /\ Len(yielded) = consumed
               /\ \A i \in 1..Len(yielded) : ScalarOf(yielded[i]) \in Scalars
               /\ Utf8(ScalarsOf(yielded)) \o stream = input
               /\ result.tag = "None" => stream = <<>>)
    /\ [][(op' = "read_char" /\ input \in Utf8Texts)
            => /\ (stream = <<>> <=> result'.tag = "None")
               /\ (stream # <<>> => \E n \in Scalars :
                        /\ stream = Utf8Encoding(n) \o stream'
                        /\ yielded' = Append(yielded, CharOf(n)))]_vars

\* The three characters of C3 A9, F0 9F 98 80, E2 82 AC were returned by three
\* calls, and the fourth call returned the end marker.
C25_Witness ==
    /\ OnlyReadChar
    /\ input = <<"xC3", "xA9", "xF0", "x9F", "x98", "x80", "xE2", "x82", "xAC">>
    /\ yielded = <<Scalar(233), Scalar(128512), Scalar(8364)>>
    /\ consumed = 3
    /\ result.tag = "None"
    /\ stream = <<>>

\* ---- C26
\* The bytes s are the UTF-8 encoding of one scalar value: the value their
\* payload bits spell is a scalar value and encodes to s.
PayloadBits(s) ==
    CASE Len(s) = 2 -> (HighBytes[s[1]] % 32) * 64 + (HighBytes[s[2]] % 64)
      [] Len(s) = 3 -> (HighBytes[s[1]] % 16) * 4096 + (HighBytes[s[2]] % 64) * 64
                            + (HighBytes[s[3]] % 64)
      [] Len(s) = 4 -> (HighBytes[s[1]] % 8) * 262144 + (HighBytes[s[2]] % 64) * 4096
                            + (HighBytes[s[3]] % 64) * 64 + (HighBytes[s[4]] % 64)
IsScalarValue(n) == n \in 0..1114111 /\ n \notin 55296..57343
IsEncoding(s) ==
    \/ Len(s) = 1 /\ ~is_high(s[1])
    \/ /\ Len(s) \in 2..4
       /\ \A i \in 1..Len(s) : is_high(s[i])
       /\ IsScalarValue(PayloadBits(s))
       /\ Utf8Encoding(PayloadBits(s)) = s
\* Some encoding is a prefix of the bytes r.
EncodingStarts(r) == \E k \in 1..4 : k <= Len(r) /\ IsEncoding(SubSeq(r, 1, k))
\* The bytes r are all that is left and are a proper prefix of an encoding.
ContinuationBytes == {b \in DOMAIN HighBytes : HighBytes[b] \in 128..191}
Completions == {t \in Texts(ContinuationBytes, 3) : t # <<>>}
CutShort(r) ==
    /\ r # <<>>
    /\ \E t \in Completions : Len(r) + Len(t) <= 4 /\ IsEncoding(r \o t)
\* The bytes r start with no encoding.
NoEncoding(r) == r # <<>> /\ ~EncodingStarts(r)

\* read_char: the end marker on an empty reader, an error on bytes cut short
\* or invalid.
ReadCharFailsOnBadBytes ==
    [][op' = "read_char"
        => /\ (stream = <<>> => result'.tag = "None")
           /\ ((CutShort(stream) \/ NoEncoding(stream)) => result'.tag = "Err")]_vars
\* next_token on such bytes returns the error, of kind IOError.
TokenizerSurfacesIoError ==
    [](op = "next_token" /\ Len(trail) = 1 /\ (CutShort(input) \/ NoEncoding(input))
        => (result.tag = "Err" /\ result.err.kind = "IOError"))
\* The error is fatal: the call after it returns no token.
IoErrorIsFatal ==
    [][(op = "next_token" /\ result.tag = "Err" /\ result.err.kind = "IOError")
        => result'.tag # "Ok"]_vars

\* C26: read_char returns the end marker when the reader yields no byte at the
\* start of a character, and an error, never a character, when the input
\* ends after a proper prefix of a multi-byte sequence or the bytes read form
\* no valid UTF-8 sequence; the tokenizer returns that error, and it is fatal
\* for the token stream.
C26_ReadCharErrors ==
    ReadCharFailsOnBadBytes /\ TokenizerSurfacesIoError /\ IoErrorIsFatal

\* ---- helpers of the literal properties
\* The first call on the stream has just returned.
FirstCall == Len(trail) = 1 /\ op \in {"next_token", "peek"}
IsInvalidInput(r) == r.tag = "Err" /\ r.err.kind = "InvalidInput"

\* ---- C27
\* The text t after an opening double quote reaches the end of the input, or
\* a newline that no backslash escapes, before a closing double quote.
RECURSIVE Unterminated(_)
Unterminated(t) ==
    IF t = <<>> THEN TRUE
    ELSE IF Head(t) = "\n" THEN TRUE
    ELSE IF Head(t) = "\"" THEN FALSE
    ELSE IF Head(t) = "\\" THEN (Len(t) = 1 \/ Unterminated(Tail(Tail(t))))
    ELSE Unterminated(Tail(t))

\* C27: in a string literal, the end of the input or an unescaped newline
\* before the closing double quote makes next_token return an InvalidInput
\* error and no StringLiteral token.
C27_UnterminatedString ==
    (FirstCall /\ input # <<>> /\ Head(input) = "\"" /\ Unterminated(Tail(input)))
        => IsInvalidInput(result)

\* ---- C28
\* What a backslash and the character c decode to ("" where the escape is
\* invalid).
Decoded(c) ==
    CASE c \in {"r", "n"} -> "\n"
      [] c = "t" -> "\t"
      [] c \in {"\\", "'", "\""} -> c
      [] OTHER -> ""
\* The input is the quote q, a backslash, the character c and the quote q.
IsEscapeIn(q, c) == input = <<q, "\\", c, q>>
TabStringText == <<"\"","a","\\","t","b","\"">>

\* C28: in string and char literals a backslash followed by r or n decodes
\* to a newline, by t to a tab, by a backslash, a single or a double quote to
\* that character; any other character, or the end of the input, after the
\* backslash gives an InvalidInput error.  The text "a\tb" decodes to the
\* three characters a, tab, b.
C28_EscapeSequences ==
    /\ \A c \in EscapeChars :
          /\ (FirstCall /\ IsEscapeIn("\"", c))
                => IF Decoded(c) # ""
                   THEN result.tag = "Ok"
                            /\ result.tok.value = StrValue("StringLiteral", <<Decoded(c)>>)
                   ELSE IsInvalidInput(result)
          /\ (FirstCall /\ IsEscapeIn("'", c))
                => IF Decoded(c) # ""
                   THEN result.tag = "Ok"
                            /\ result.tok.value = StrValue("CharLiteral", <<Decoded(c)>>)
                   ELSE IsInvalidInput(result)
    /\ (FirstCall /\ input \in {<<"\"", "\\">>, <<"'", "\\">>, <<"\"", "a", "\\">>})
            => IsInvalidInput(result)
    /\ (FirstCall /\ input = TabStringText)
            => /\ result.tag = "Ok"
               /\ result.tok.value = StrValue("StringLiteral", <<"a", "\t", "b">>)
               /\ Len(result.tok.value.str) = 3

\* The string "a\tb" was read as one token of three characters.
C28_Witness ==
    /\ op = "next_token"
    /\ FirstCall
    /\ input = TabStringText
    /\ result.tag = "Ok"
    /\ result.tok.value.kind = "StringLiteral"
    /\ result.tok.value.str = <<"a", "\t", "b">>
    /\ stream = <<>>

\* ---- C29
\* The text t, which starts with a single quote, is one character or one
\* escape sequence between two single quotes.
ValidEscapes == {"r", "n", "t", "\\", "'", "\""}
OneCharacter(t) == Len(t) >= 3 /\ t[2] \notin {"'", "\\"} /\ t[3] = "'"
OneEscape(t) == Len(t) >= 4 /\ t[2] = "\\" /\ t[3] \in ValidEscapes /\ t[4] = "'"
\* The end of the input comes inside the literal.
EndsInside(t) ==
    \/ Len(t) = 1
    \/ Len(t) = 2 /\ t[2] # "'"
    \/ Len(t) = 3 /\ t[2] = "\\" /\ t[3] \in ValidEscapes

\* C29: a single quote starts a char literal, which gives CharLiteral(c) only
\* when one character or one escape sequence is directly followed by the
\* closing quote; the empty literal, a second character before the closing
\* quote, and the end of the input inside the literal each give an error.
C29_CharLiteral ==
    (FirstCall /\ input # <<>> /\ Head(input) = "'")
        => /\ result.tag \in {"Ok", "Err"}
           /\ result.tag = "Ok" <=> (OneCharacter(input) \/ OneEscape(input))
           /\ OneCharacter(input)
                => result.tok.value = StrValue("CharLiteral", <<input[2]>>)
           /\ OneEscape(input)
                => result.tok.value = StrValue("CharLiteral", <<Decoded(input[3])>>)
           /\ (Len(input) >= 2 /\ input[2] = "'") => IsInvalidInput(result)
           /\ (Len(input) >= 3 /\ input[2] \notin {"'", "\\"} /\ input[3] # "'")
                => IsInvalidInput(result)
           /\ EndsInside(input) => IsInvalidInput(result)

\* The literal 'ab' gave an error at its second character.
C29_Witness ==
    /\ FirstCall
    /\ input = <<"'", "a", "b", "'">>
    /\ IsInvalidInput(result)
    /\ result.err.message = "character literals can only contain one character"

\* ---- C30
EmptyCallTexts == {<<"a", "(", ")">>, <<"a", " ", "(", ")">>}

\* C30: a call with an empty argument list, an identifier followed by ( and ),
\* parses to a FunctionCall of that identifier with no arguments.
C30_EmptyArgumentList ==
    (FreshCall("parse") /\ input \in EmptyCallTexts)
        => (pcall.tag = "Ok" /\ IsCall(pcall.expr, <<"a">>, 0))

\* ---- C31
\* The texts e of the parenthesised expressions ( e ): a literal and an
\* identifier.
InnerTexts == {<<"1">>, <<"a">>}
Parenthesised(e) == <<"(">> \o e \o <<")">>
\* An expression without the token it started at.
Unplaced(e) == [e EXCEPT !.first_token = NoToken]
\* What parse returns for the text e alone.
ParsedAlone(e) == parse(NewStream(e), close_paren)

\* C31: parse of ( e ) returns exactly the expression parsed for e, with no
\* wrapper node, and consumes the matching close-paren; (1) parses to the
\* bare integer literal 1 and leaves no token of it in the stream.
C31_ParenthesisedExpression ==
    \A e \in InnerTexts :
        (FreshCall("parse") /\ input = Parenthesised(e))
            => /\ pcall.tag = "Ok"
               /\ ParsedAlone(e).tag = "Ok"
               /\ Unplaced(pcall.expr) = Unplaced(ParsedAlone(e).expr)
               /\ (e = <<"1">> => IsLiteral(pcall.expr, 1))
               /\ next_token(Self).res.tag = "None"

\* ---- C32
\* Texts that end where a token is still required: before any expression,
\* in the argument list of a call, in a parenthesised expression.
NoExpressionTexts == {<<>>, <<" ">>, <<" ", " ">>}
OpenCallTexts == {<<"a", "(">>, <<"a", "(", "1">>, <<"a", " ", "(">>}
OpenParenTexts == {<<"(">>, <<"(", "1">>, <<"(", "a">>, <<"(", "(">>, <<"(", " ", "1">>}
IsUnexpectedEOF == pcall.tag = "Err" /\ pcall.err.kind = "UnexpectedEOF"
EofAtStart == (FreshCall("parse") /\ input \in NoExpressionTexts) => IsUnexpectedEOF
EofInCall == (FreshCall("parse") /\ input \in OpenCallTexts) => IsUnexpectedEOF
EofInParen == (FreshCall("parse") /\ input \in OpenParenTexts) => IsUnexpectedEOF

\* C32: if the token stream ends where a token is still required, at the
\* start of an expression, inside a call's argument list before its ), or
\* inside a parenthesised expression before its ), parse returns an
\* UnexpectedEOF error and never an expression.
C32_UnexpectedEof == EofAtStart /\ EofInCall /\ EofInParen

\* ---- C33
\* The text is a run of k decimal digits, a dot, and then no digit.
DigitsThenDot(t, k) ==
    /\ k >= 1 /\ Len(t) > k
    /\ \A i \in 1..k : t[i] \in DecimalDigits
    /\ t[k + 1] = "."
    /\ (Len(t) > k + 1 => t[k + 2] \notin DecimalDigits)
OnlyNextToken(n) == Len(trail) = n /\ \A i \in 1..n : trail[i] = "next_token"

\* C33: a decimal digit run followed by a dot and then a non-digit or the
\* end of input tokenizes to the IntegerLiteral of the digits followed by a
\* Dot token: the dot is not lost, no float is produced, no error is raised.
C33_TrailingDot ==
    \A k \in 1..Len(input) :
        DigitsThenDot(input, k)
            => /\ OnlyNextToken(1)
                    => /\ result.tag = "Ok"
                       /\ result.tok.value =
                            NumValue("IntegerLiteral", DigitsValue(SubSeq(input, 1, k), 10))
                       /\ result.tok.text = SubSeq(input, 1, k)
               /\ OnlyNextToken(2)
                    => /\ result.tag = "Ok"
                       /\ result.tok.value.kind = "Dot"

\* The second next_token on `5.` returned the Dot token.
C33_Witness ==
    /\ input = <<"5", ".">>
    /\ OnlyNextToken(2)
    /\ result.tag = "Ok"
    /\ result.tok.value.kind = "Dot"
    /\ yielded = <<"5", ".">>

\* ---- C34
\* The tokens and errors the stream has still to give, and those of the
\* input that were read from it so far.
RemainingTokens == Drain(next_token(Self))
TokensRead(ref, rest) == SubSeq(ref, 1, Len(ref) - Len(rest))
HasError(read) == \E i \in 1..Len(read) : read[i].tag = "Err"
\* The call returned the tokenizer error e wrapped as a TokenizerError.
ReturnsWrapped(e) ==
    /\ pcall.tag = "Err"
    /\ pcall.err.kind = "TokenizerError"
    /\ pcall.err.inner = e
    /\ pcall.err.line = e.line
    /\ pcall.err.column = e.column
    /\ pcall.err.source = e.source
\* read: what the call read of the stream.
WrapsTokenizerError(read) ==
    /\ HasError(read) => ReturnsWrapped(read[Len(read)].err)
    /\ (pcall.tag = "Err" /\ pcall.err.kind = "TokenizerError") => HasError(read)

\* C34: every tokenizer error met while add_source or parse reads tokens is
\* returned to the caller as a parser Error of kind TokenizerError carrying
\* the line, column and source path of the tokenizer error; no tokenizer
\* error is swallowed or turned into another kind.
C34_TokenizerErrorsAreWrapped ==
    (pcall.op = "add_source" \/ FreshCall("parse"))
        => WrapsTokenizerError(TokensRead(Reference(input), RemainingTokens))

\* add_source met the tokenizer error of `1a` inside a const block and
\* returned it wrapped.
C34_Witness ==
    /\ input = <<"u","s","e"," ","{","}","\n","c","o","n","s","t"," ","{","x"," ","i","n","t"," ","="," ","1","a","\n","}">>
    /\ pcall.op = "add_source"
    /\ pcall.tag = "Err"
    /\ pcall.err.kind = "TokenizerError"
    /\ pcall.err.inner.kind = "InvalidInput"
    /\ pcall.err.line = 2

\* ---- C35
\* C35: in every reachable state of a TokenStream the pushback buffer holds
\* at most one character, and it is empty whenever the end-of-stream flag is
\* set.
C35_PushbackAtMostOne ==
    /\ Len(lookahead_buf) <= 1
    /\ finished => lookahead_buf = <<>>

\* next_token on `+a` read the a after the operator and pushed it back.
C35_Witness ==
    /\ input = <<"+", "a">>
    /\ trail = <<"next_token">>
    /\ lookahead_buf = <<"a">>
    /\ ~finished

\* ---- C36
\* C36: no input makes the tokenizer return an error of kind Internal: every
\* operator string that read_operator can assemble is known to
\* build_operator and every digit string that read_number accepts converts
\* to a number, so malformed or out-of-range input is reported as
\* InvalidInput.
C36_NoInternalError == ~(result.tag = "Err" /\ result.err.kind = "Internal")

\* ---- C37
\* The stream is at a token that satisfies the terminator of the last call.
AtTerminator(rest) ==
    /\ rest[1].tag = "Ok"
    /\ rest[1].tok.value.kind \in pcall.arg
    /\ next_token(Self).res = rest[1]
NoNewlineIn(read) ==
    \A i \in 1..Len(read) : read[i].tag = "Ok" => read[i].tok.value.kind # "Newline"

\* C37: when parse returns successfully because the next token satisfies the
\* caller's terminator, that token has not been consumed: the next
\* next_token call returns it.  A successful parse stops at the end of the
\* input or before such a token, and with the newline terminator it has
\* read no newline.
C37_TerminatorNotConsumed ==
    /\ (pcall.op = "parse" /\ pcall.tag = "Ok" /\ RemainingTokens # <<>>)
            => AtTerminator(RemainingTokens)
    /\ (FreshCall("parse") /\ pcall.tag = "Ok" /\ WithNewline)
            => NoNewlineIn(TokensRead(Reference(input), RemainingTokens))

\* parse read the 1 of `1`, newline, `1` and left the newline in the stream.
C37_Witness ==
    /\ input = <<"1", "\n", "1">>
    /\ FreshCall("parse")
    /\ pcall.tag = "Ok"
    /\ WithNewline
    /\ IsLiteral(pcall.expr, 1)
    /\ next_token(Self).res.tag = "Ok"
    /\ next_token(Self).res.tok.value.kind = "Newline"

\* ---- C38
BlockOf(text) == CHOOSE f \in FailingBlocks : f.text = text
\* The items of the list q that are installed when the names in held are
\* taken: all of them, or those before the first one that collides.
InstalledOf(q, held) ==
    IF FirstCollision(q, held) > 0 THEN Before(q, FirstCollision(q, held))
    ELSE {q[j] : j \in 1..Len(q)}

\* C38: when add_source returns an error, every symbol installed in the
\* Module before the failing point is still defined afterwards and nothing
\* located after the failing point is installed.
C38_NoRollback ==
    /\ [][(pcall'.op = "add_source" /\ pcall'.tag = "Err")
            => /\ \A k \in DOMAIN imports : k \in DOMAIN imports' /\ imports'[k] = imports[k]
               /\ \A k \in DOMAIN functions :
                     k \in DOMAIN functions' /\ functions'[k] = functions[k]
               /\ \A k \in DOMAIN constants :
                     k \in DOMAIN constants' /\ constants'[k] = constants[k]
               /\ \A k \in DOMAIN variables :
                     k \in DOMAIN variables' /\ variables'[k] = variables[k]]_vars
    /\ [][(pcall'.op = "add_source" /\ input \in FailingBlockTexts)
            => /\ pcall'.tag = "Err"
               /\ DOMAIN imports' =
                     DOMAIN imports \cup InstalledOf(BlockOf(input).before, AllKeys)
               /\ UNCHANGED <<functions, constants, variables>>]_vars

\* use {a , . , b , }: a was installed, the item `.` failed, b was not installed.
C38_Witness ==
    /\ FreshCall("add_source")
    /\ input = FailingBlock(<<"a">>, <<".">>, <<"b">>)
    /\ pcall.tag = "Err"
    /\ pcall.err.kind = "InvalidImport"
    /\ DOMAIN imports = {<<"a">>}

\* ---- C39
\* The unary operator a leading operator token stands for.
UnaryOperatorOf(o) ==
    CASE o = <<"!">> -> "Not"
      [] o = <<"+", "+">> -> "Increment"
      [] o = <<"-", "-">> -> "Decrement"
      [] o = <<"+">> -> "Plus"
      [] o = <<"-">> -> "Minus"
\* What parse returns for the operand text e alone, up to a newline.
OperandAlone(e) == parse(NewStream(e), newline)
\* The call returned the UnaryOperation of the operator of o over the
\* expression that the text e parses to.
IsUnaryOf(o, e) ==
    /\ pcall.tag = "Ok"
    /\ OperandAlone(e).tag = "Ok"
    /\ pcall.expr.kind = "UnaryOperation"
    /\ pcall.expr.op = UnaryOperatorOf(o)
    /\ Len(pcall.expr.args) = 1
    /\ Unplaced(pcall.expr.args[1]) = Unplaced(OperandAlone(e).expr)
UnaryParsed(ops) ==
    \A o \in ops : \A e \in OperandTexts :
        (FreshCall("parse") /\ WithNewline /\ input = o \o e) => IsUnaryOf(o, e)
\* The operators the match of parse has an arm for.
UnaryWithArm == UnaryParsed({<<"!">>, <<"+">>, <<"-">>})

\* C39: parse of a unary operator token (!, ++, --) followed by an
\* expression, and of a leading + or - followed by an expression, returns a
\* UnaryOperation node whose operator is the one of that token and whose
\* operand is the expression parsed after it.
C39_UnaryOperation == UnaryParsed(UnaryOperatorTexts)

====
